---- MODULE Spec2Model ----
(***************************************************************************)
(* A model of the result-propagation and command-execution core of         *)
(* sfdx-falcon: the SFDX executor (executeSfdxCommand), the error classes   *)
(* (SfdxFalconError, SfdxCliError, ShellError) and the actions that call    *)
(* the executor.                                                            *)
(*                                                                         *)
(* Text is modelled as a sequence of lexical tokens (each token a TLA+     *)
(* string), so that concatenation, "first line" and JSON parsing are        *)
(* computed and not assumed.  JavaScript values are tagged records.         *)
(***************************************************************************)
EXTENDS Integers, Sequences, FiniteSets, TLC

VARIABLES
  sfdxCommandDef,        \* the definition passed to executeSfdxCommand
  promise,               \* the promise returned by executeSfdxCommand
  thrown,                \* TRUE iff the call threw synchronously at its caller
  executorResult,        \* the EXECUTOR SfdxFalconResult
  executorResultDetail,  \* executorResult.detail
  stdOutBuffer,          \* function-local stdout accumulator
  stdErrBuffer,          \* function-local stderr accumulator
  env,                   \* shell.env
  childProcess,          \* the child process: what it emitted so far
  progressNotifications, \* the interval timer of the call
  observer,              \* what the observer was told, in order
  shell,                 \* what shell.exec started and what closed, in order
  action,                \* the action instance: its name, options and state
  actionResult,          \* the ACTION SfdxFalconResult of ExecuteApexAction
  actionResponse,        \* this.actionResponse of DeleteScratchOrgAction
  actionPromise,         \* the promise returned by executeAction
  actionsRun,            \* the actions the recipe has completed
  cliIn,                 \* input of the SfdxCliError constructor
  cliOut,                \* the constructed SfdxCliError
  argIn,                 \* the argument passed to sanitizeArgument
  argOut,                \* what sanitizeArgument returned
  cmdIn,                 \* the definition passed to parseSfdxCommand
  cmdOut,                \* what parseSfdxCommand returned
  errors,                \* the Error objects there are, in order of construction
  stackItems,            \* per Error object: the result stack it started with and the items added
  errCall,               \* the last call of wrap or rootCause, with what it returned
  tree,                  \* a parent Result and the child folded into it
  calls,                 \* two calls of executeSfdxCommand in flight: the locals of each
  falconDebug,           \* the static fields of FalconDebug
  statusReport,          \* a FalconStatusReport: its timer fields
  now,                   \* what new Date().getTime() returns
  helperCall,            \* the last call on FalconDebug or the report, with its outcome
  initTasks,             \* the task groups of _executeInitializationTasks
  generator,             \* CreateAppxPackageProject: status, answers, what it asked and wrote
  createCommand          \* FalconAdkCreate.run: the generator's promise and the handlers run

execVars == <<sfdxCommandDef, promise, thrown, executorResult, executorResultDetail,
              stdOutBuffer, stdErrBuffer, env, childProcess, progressNotifications,
              observer, shell>>
actionVars == <<action, actionResult, actionResponse, actionPromise, actionsRun>>
cliVars == <<cliIn, cliOut>>
cmdVars == <<argIn, argOut, cmdIn, cmdOut>>
errVars == <<errors, stackItems, errCall>>
pluginVars == <<calls, falconDebug, statusReport, now, helperCall, initTasks, generator,
                createCommand>>
vars == <<execVars, actionVars, cliVars, cmdVars, errVars, tree, pluginVars>>

(***************************************************************************)
(* Bounds                                                                   *)
(***************************************************************************)
MaxOutChunks == 2      \* stdout data events per child process
MaxErrChunks == 1      \* stderr data events per child process
MaxTicks == 1          \* progress ticks per call
MaxPairs == 2          \* members of a JSON object given to SfdxCliError
MaxLateSets == 1       \* later status calls on a settled EXECUTOR Result
MaxTreeSets == 2       \* status calls on the parent of a Result tree
MaxChildren == 2       \* children folded into the parent of a Result tree
MaxActions == 2        \* actions of a recipe
MaxArgLen == 3         \* characters of an argument given to sanitizeArgument
MaxKeyLen == 2         \* characters of a commandFlags key after its first five
MaxArgs == 2           \* positional arguments of a command definition
MaxFlags == 2          \* keys of commandFlags
MaxErrors == 2         \* Error objects constructed
MaxStackItems == 2     \* calls of addToStack
MaxPairChunks == 1     \* chunks per stream of each of two calls in flight
MaxClock == 3          \* milliseconds that pass on the clock
MaxQuestions == 7      \* question groups put to the user in one interview

(***************************************************************************)
(* JavaScript values                                                        *)
(***************************************************************************)
Undefined == [t |-> "undefined"]
Null == [t |-> "null"]
Num(n) == [t |-> "number", n |-> n]
Str(s) == [t |-> "string", s |-> s]
Bool(b) == [t |-> "boolean", b |-> b]
Arr(a) == [t |-> "array", a |-> a]
Obj(o) == [t |-> "object", o |-> o]

\* JavaScript truthiness.
Truthy(v) ==
  CASE v.t = "undefined" -> FALSE
    [] v.t = "null" -> FALSE
    [] v.t = "number" -> v.n # 0
    [] v.t = "string" -> v.s # <<>>
    [] v.t = "boolean" -> v.b
    [] OTHER -> TRUE

\* a || b
OrElse(a, b) == IF Truthy(a) THEN a ELSE b

\* v[key] for a value that is not null or undefined.
Get(v, key) ==
  IF v.t = "object" /\ key \in DOMAIN v.o THEN v.o[key] ELSE Undefined

(***************************************************************************)
(* JSON text.  A document is a sequence of tokens: "{", "}", ",", member    *)
(* tokens (a key, a colon and a complete value), scalar documents, and      *)
(* white space.  Everything else is text that is not JSON.                  *)
(***************************************************************************)

MemberTokens ==
  {"\"status\":0", "\"status\":1", "\"status\":null", "\"status\":\"12\"",
   "\"status\":\"failed\"", "\"name\":\"ScratchOrgNotFound\"", "\"name\":\"\"",
   "\"message\":\"no such org\"", "\"action\":\"retry\"",
   "\"actions\":[\"a1\",\"a2\"]", "\"actions\":\"a1\"",
   "\"result\":{\"id\":\"abc\"}", "\"warnings\":[\"w1\"]"}

\* JSON.parse(text): ok = FALSE stands for a thrown SyntaxError.
JSONparse(text) ==
  LET \* The object a member list denotes: a later duplicate key wins.
      ObjectOf(inner) ==
        LET Member(tok) ==
              CASE tok = "\"status\":0" -> [k |-> "status", v |-> Num(0)]
                [] tok = "\"status\":1" -> [k |-> "status", v |-> Num(1)]
                [] tok = "\"status\":null" -> [k |-> "status", v |-> Null]
                [] tok = "\"status\":\"12\"" -> [k |-> "status", v |-> Str(<<"12">>)]
                [] tok = "\"status\":\"failed\"" -> [k |-> "status", v |-> Str(<<"failed">>)]
                [] tok = "\"name\":\"ScratchOrgNotFound\"" -> [k |-> "name", v |-> Str(<<"ScratchOrgNotFound">>)]
                [] tok = "\"name\":\"\"" -> [k |-> "name", v |-> Str(<<>>)]
                [] tok = "\"message\":\"no such org\"" -> [k |-> "message", v |-> Str(<<"no such org">>)]
                [] tok = "\"action\":\"retry\"" -> [k |-> "action", v |-> Str(<<"retry">>)]
                [] tok = "\"actions\":[\"a1\",\"a2\"]" -> [k |-> "actions", v |-> Arr(<<Str(<<"a1">>), Str(<<"a2">>)>>)]
                [] tok = "\"actions\":\"a1\"" -> [k |-> "actions", v |-> Str(<<"a1">>)]
                [] tok = "\"result\":{\"id\":\"abc\"}" -> [k |-> "result", v |-> Obj([id |-> Str(<<"abc">>)])]
                [] tok = "\"warnings\":[\"w1\"]" -> [k |-> "warnings", v |-> Arr(<<Str(<<"w1">>)>>)]
                [] OTHER -> [k |-> "", v |-> Undefined]
        IN
        LET idx == {i \in 1..Len(inner) : i % 2 = 1}
            keys == {Member(inner[i]).k : i \in idx}
            last(k) == CHOOSE i \in idx :
                         /\ Member(inner[i]).k = k
                         /\ \A j \in idx : Member(inner[j]).k = k => j <= i
        IN Obj([k \in keys |-> Member(inner[last(k)]).v])
  IN
  LET \* The members of "{" m1 "," m2 ... "}" without the braces: odd places hold
      \* member tokens, even places hold commas.
      IsMemberList(inner) ==
        \/ inner = <<>>
        \/ /\ Len(inner) % 2 = 1
           /\ \A i \in 1..Len(inner) :
                IF i % 2 = 1 THEN inner[i] \in MemberTokens ELSE inner[i] = ","
  IN
  LET Scalar(tok) ==
        CASE tok = "null" -> Null
          [] tok = "7" -> Num(7)
          [] tok = "\"text\"" -> Str(<<"text">>)
          [] OTHER -> Undefined
  IN
  LET ScalarTokens == {"null", "7", "\"text\""}
  IN
  LET WhiteSpace == {"\n"}
  IN
  LET doc == SelectSeq(text, LAMBDA tok : tok \notin WhiteSpace)
      n == Len(doc)
  IN IF n = 1 /\ doc[1] \in ScalarTokens
       THEN [ok |-> TRUE, value |-> Scalar(doc[1])]
     ELSE IF n >= 2 /\ doc[1] = "{" /\ doc[n] = "}" /\ IsMemberList(SubSeq(doc, 2, n - 1))
       THEN [ok |-> TRUE, value |-> ObjectOf(SubSeq(doc, 2, n - 1))]
     ELSE [ok |-> FALSE, value |-> Undefined]

(***************************************************************************)
(* SfdxFalconError and its subclasses                                       *)
(***************************************************************************)
\* new SfdxFalconError(message, name, source) with no cause.
SfdxFalconError(message, name, source) ==
  [name |-> name, message |-> message, source |-> source,
   actions |-> <<>>, resultStack |-> <<>>, detail |-> Obj(<<>>)]

\* `${v}` for the values a message can be.
Template(v) ==
  CASE v.t = "string" -> v.s
    [] v.t = "number" -> <<ToString(v.n)>>
    [] v.t = "boolean" -> IF v.b THEN <<"true">> ELSE <<"false">>
    [] OTHER -> <<v.t>>

\* The catch block of the SfdxCliError constructor.
UnparseableCliError(stdErr) ==
  LET UnparseableMsg == <<"Unparseable CLI Error (see 'cliError.result.rawResult' for raw error)">>
  IN
  [name |-> Str(<<"UnparseableCliError">>),
   message |-> Str(UnparseableMsg),
   status |-> Num(999),
   actions |-> Arr(<<>>),
   warnings |-> Arr(<<>>),
   stack |-> Str(UnparseableMsg),
   result |-> Obj([rawResult |-> Str(stdErr)])]

\* try { ... } catch (parsingError) { ... }: a SyntaxError of JSON.parse and
\* the TypeError of reading a property of null both land in the catch block.
CliErrorDetail(stdErr) ==
  LET \* The try block of the SfdxCliError constructor, for a parsed value on
      \* which property access does not throw.
      ParsedCliError(parsedError) ==
        LET \* The global isNaN(v): Number(v) is NaN.
            IsNaN(v) ==
              LET \* Strings whose Number() is a number, among the strings of the model.
                  NumericText == {<<>>, <<"12">>}
              IN
              CASE v.t = "undefined" -> TRUE
                [] v.t = "null" -> FALSE
                [] v.t = "number" -> FALSE
                [] v.t = "string" -> v.s \notin NumericText
                [] v.t = "boolean" -> FALSE
                [] v.t = "array" -> v.a # <<>>
                [] OTHER -> TRUE
        IN
        LET UnknownCliMsg == <<"Unknown CLI Error (see 'cliError.result.rawResult' for original CLI response)">>
        IN
        LET listed == IF Get(parsedError, "actions").t = "array"
                        THEN Get(parsedError, "actions").a ELSE <<>>
            actions == IF Truthy(Get(parsedError, "action"))
                         THEN Append(listed, Get(parsedError, "action")) ELSE listed
        IN [name |-> OrElse(Get(parsedError, "name"), Str(<<"UnknownCliError">>)),
            message |-> OrElse(Get(parsedError, "message"), Str(UnknownCliMsg)),
            status |-> IF IsNaN(Get(parsedError, "status")) THEN Num(1)
                       ELSE Get(parsedError, "status"),
            actions |-> Arr(actions),
            warnings |-> OrElse(Get(parsedError, "warnings"), Arr(<<>>)),
            stack |-> OrElse(Get(parsedError, "stack"), Str(<<>>)),
            result |-> OrElse(Get(parsedError, "result"), Obj([rawResult |-> parsedError]))]
  IN
  LET parsed == JSONparse(stdErr)
  IN IF parsed.ok /\ parsed.value.t \notin {"null", "undefined"}
       THEN [threw |-> FALSE, cliError |-> ParsedCliError(parsed.value)]
       ELSE [threw |-> FALSE, cliError |-> UnparseableCliError(stdErr)]

\* new SfdxCliError(stdErrBuffer, message, source)
SfdxCliError(stdErr, message, source) ==
  LET d == CliErrorDetail(stdErr)
      base == SfdxFalconError(message \o <<". ">> \o Template(d.cliError.message),
                              "SfdxCliError", source)
  IN [base EXCEPT !.actions = d.cliError.actions.a]
       @@ [threw |-> d.threw, cliError |-> d.cliError]

\* text.substr(0, text.indexOf('\n')): a negative length yields ''.
FirstLine(text) ==
  IF \E i \in 1..Len(text) : text[i] = "\n"
    THEN SubSeq(text, 1, (CHOOSE i \in 1..Len(text) :
                            text[i] = "\n" /\ \A j \in 1..(i - 1) : text[j] # "\n") - 1)
    ELSE <<>>

\* ShellError with the code and the signal stored in each other's place.
ShellErrorSwapped(command, code, signal, stdErr, stdOut, source) ==
  SfdxFalconError(FirstLine(stdErr), "ShellError", source)
    @@ [shellError |-> [command |-> command, code |-> signal, signal |-> code,
                        stdout |-> stdOut, stderr |-> stdErr,
                        message |-> FirstLine(stdErr)]]

\* new ShellError(command, code, signal, stdErrBuffer, stdOutBuffer, source)
\* with no explicit message.
ShellError(command, code, signal, stdErr, stdOut, source) ==
  LET message == IF stdErr # <<>> THEN FirstLine(stdErr)
                 ELSE IF stdOut # <<>> THEN FirstLine(stdOut)
                 ELSE <<"Unknown Shell Error (code=">> \o Template(code)
                        \o <<", signal=">> \o Template(signal) \o <<")">>
  IN SfdxFalconError(message, "ShellError", source)
       @@ [shellError |-> [command |-> command, code |-> code, signal |-> signal,
                           stdout |-> stdOut, stderr |-> stdErr, message |-> message]]

(***************************************************************************)
(* The command sanitizer.  Command text is a sequence of characters.        *)
(***************************************************************************)
UpperCase == <<"A", "B", "C", "D", "E", "F", "G", "H", "I", "J", "K", "L", "M",
               "N", "O", "P", "Q", "R", "S", "T", "U", "V", "W", "X", "Y", "Z">>
LowerCase == <<"a", "b", "c", "d", "e", "f", "g", "h", "i", "j", "k", "l", "m",
               "n", "o", "p", "q", "r", "s", "t", "u", "v", "w", "x", "y", "z">>
Digits == {"0", "1", "2", "3", "4", "5", "6", "7", "8", "9"}
Range(f) == {f[i] : i \in DOMAIN f}
Letters == Range(UpperCase) \cup Range(LowerCase)
Blank == {" ", "\n", "\t"}

\* [A-Za-z0-9_\/:=-]
ArgumentChars == Letters \cup Digits \cup {"_", "/", ":", "=", "-"}

toLowerCase(s) ==
  [i \in 1..Len(s) |->
     IF s[i] \in Range(UpperCase)
       THEN LowerCase[CHOOSE j \in 1..Len(UpperCase) : UpperCase[j] = s[i]] ELSE s[i]]

toUpperCase(s) ==
  [i \in 1..Len(s) |->
     IF s[i] \in Range(LowerCase)
       THEN UpperCase[CHOOSE j \in 1..Len(LowerCase) : LowerCase[j] = s[i]] ELSE s[i]]

\* s.substr(from, length), from counted from 0: it stops at the end of s.
substr(s, from, length) ==
  SubSeq(s, from + 1, IF from + length > Len(s) THEN Len(s) ELSE from + length)

\* s.substring(from), from counted from 0
Rest(s, from) == SubSeq(s, from + 1, Len(s))

RECURSIVE TrimStart(_)
TrimStart(s) == IF s # <<>> /\ Head(s) \in Blank THEN TrimStart(Tail(s)) ELSE s
RECURSIVE TrimEnd(_)
TrimEnd(s) ==
  IF s # <<>> /\ s[Len(s)] \in Blank THEN TrimEnd(SubSeq(s, 1, Len(s) - 1)) ELSE s
\* String.prototype.trim
trim(s) == TrimEnd(TrimStart(s))

\* String(value): a number is one digit.
String(v) ==
  CASE v.t = "string" -> v.s
    [] v.t = "number" -> <<ToString(v.n)>>
    [] v.t = "boolean" -> IF v.b THEN <<"t", "r", "u", "e">>
                          ELSE <<"f", "a", "l", "s", "e">>
    [] v.t = "null" -> <<"n", "u", "l", "l">>
    [] OTHER -> <<"u", "n", "d", "e", "f", "i", "n", "e", "d">>

\* A replacement that leaves the single quotes as they are.
KeepQuotes(s) == s

\* argument.replace(/'/g, "'\\''")
RECURSIVE EscapeQuotes(_)
EscapeQuotes(s) ==
  IF s = <<>> THEN <<>>
  ELSE (IF Head(s) = "'" THEN <<"'", "\\", "'", "'">> ELSE <<Head(s)>>)
         \o EscapeQuotes(Tail(s))

\* argument.replace(/^(?:'')+/g, '')
RECURSIVE UnduplicateStart(_)
UnduplicateStart(s) ==
  IF Len(s) >= 2 /\ s[1] = "'" /\ s[2] = "'"
    THEN UnduplicateStart(SubSeq(s, 3, Len(s))) ELSE s

\* argument.replace(/\\'''/g, "\\'")
RECURSIVE CollapseEscaped(_)
CollapseEscaped(s) ==
  IF s = <<>> THEN <<>>
  ELSE IF Len(s) >= 4 /\ SubSeq(s, 1, 4) = <<"\\", "'", "'", "'">>
    THEN <<"\\", "'">> \o CollapseEscaped(SubSeq(s, 5, Len(s)))
  ELSE <<Head(s)>> \o CollapseEscaped(Tail(s))

\* A sanitizer that quotes every argument, safe or not.
QuoteEveryArgument(argument) ==
  LET arg == trim(String(argument))
  IN CollapseEscaped(UnduplicateStart(<<"'">> \o EscapeQuotes(arg) \o <<"'">>))

sanitizeArgument(argument) ==
  LET arg == trim(String(argument))
  IN IF \E i \in 1..Len(arg) : arg[i] \notin ArgumentChars
       THEN CollapseEscaped(UnduplicateStart(<<"'">> \o EscapeQuotes(arg) \o <<"'">>))
       ELSE arg

\* A flag sanitizer that only trims.
TrimFlag(flag) == trim(flag)

sanitizeFlag(flag) ==
  LET \* [a-z0-9-] with the i flag
      FlagChars == Letters \cup Digits \cup {"-"}
  IN
  SelectSeq(trim(flag), LAMBDA c : c \in FlagChars)

RECURSIVE ArgsText(_)
ArgsText(args) ==
  IF args = <<>> THEN <<>>
  ELSE <<" ">> \o sanitizeArgument(Head(args)) \o ArgsText(Tail(args))

RECURSIVE FlagsText(_)
FlagsText(flags) ==
  LET \* One iteration of the loop over Object.keys(commandFlags): the text the
      \* key appends to the command.
      FlagText(objectKey, value) ==
        IF toUpperCase(substr(objectKey, 0, 5)) # <<"F", "L", "A", "G", "_">>
          THEN <<>>
        ELSE LET flag == toLowerCase(Rest(objectKey, 5))
                 hyphen == IF Len(flag) = 1 THEN <<"-">> ELSE <<"-", "-">>
                 resolvedFlag == sanitizeFlag(hyphen \o flag)
             IN IF value.t = "boolean"
                  THEN <<" ">> \o resolvedFlag
                  ELSE <<" ">> \o resolvedFlag \o <<" ">> \o sanitizeArgument(value)
  IN
  IF flags = <<>> THEN <<>>
  ELSE FlagText(Head(flags).key, Head(flags).value) \o FlagsText(Tail(flags))

\* A compiler that appends the flags before the positional arguments.
parseFlagsFirst(sfdxCommand) ==
  IF sfdxCommand.commandArgs.t # "array" \/ sfdxCommand.commandFlags.t # "flags"
    THEN [threw |-> TRUE, value |-> <<>>]
    ELSE [threw |-> FALSE,
          value |-> <<"s", "f", "d", "x", " ">> \o sfdxCommand.command
                      \o FlagsText(sfdxCommand.commandFlags.f)
                      \o ArgsText(sfdxCommand.commandArgs.a)]

\* parseSfdxCommand(sfdxCommand): threw = TRUE stands for the TypeError of
\* iterating commandArgs, or of Object.keys(commandFlags), when the field is
\* undefined.  A commandFlags object is the list of its own keys, in order.
parseSfdxCommand(sfdxCommand) ==
  IF sfdxCommand.commandArgs.t # "array" \/ sfdxCommand.commandFlags.t # "flags"
    THEN [threw |-> TRUE, value |-> <<>>]
    ELSE [threw |-> FALSE,
          value |-> <<"s", "f", "d", "x", " ">> \o sfdxCommand.command
                      \o ArgsText(sfdxCommand.commandArgs.a)
                      \o FlagsText(sfdxCommand.commandFlags.f)]

(***************************************************************************)
(* SfdxFalconResult                                                         *)
(***************************************************************************)
Terminal == {"SUCCESS", "FAILURE", "ERROR"}

\* new SfdxFalconResult(name, type, options).  sets counts the calls of
\* success(), failure() and error() on the Result, refused those that were
\* turned down, and asked is the status the last call asked for.
NewResult(type, options) ==
  [type |-> type,
   status |-> IF options.startNow THEN "RUNNING" ELSE "INITIALIZED",
   errObj |-> Null,
   children |-> <<>>,
   bubbleError |-> options.bubbleError,
   bubbleFailure |-> options.bubbleFailure,
   failureIsError |-> options.failureIsError,
   sets |-> 0,
   refused |-> 0,
   asked |-> "none"]

ExecutorOptions ==
  [startNow |-> FALSE, bubbleError |-> TRUE, bubbleFailure |-> TRUE,
   failureIsError |-> TRUE]

\* success(), failure(errObj), error(errObj): a finalized Result turns down
\* a different terminal status by throwing; its own status again changes
\* nothing.
SetStatus(result, status, errObj) ==
  IF result.status \in Terminal
    THEN IF result.status = status
           THEN [threw |-> FALSE,
                 result |-> [result EXCEPT !.sets = @ + 1, !.asked = status]]
           ELSE [threw |-> TRUE,
                 result |-> [result EXCEPT !.sets = @ + 1, !.refused = @ + 1,
                                           !.asked = status]]
    ELSE [threw |-> FALSE,
          result |-> [result EXCEPT !.status = status, !.errObj = errObj,
                                    !.sets = @ + 1, !.asked = status]]

(***************************************************************************)
(* Promises                                                                 *)
(***************************************************************************)
NoPromise == [state |-> "none", value |-> "none"]
Pending == [state |-> "pending", value |-> "none"]
Settled == {"resolved", "rejected"}

\* A resolve that is never called.
ResolveNever(p, value) == p

\* resolve(value) and reject(value) of a promise: the first call settles.
Resolve(p, value) ==
  IF p.state = "pending" THEN [state |-> "resolved", value |-> value] ELSE p
Reject(p, value) ==
  IF p.state = "pending" THEN [state |-> "rejected", value |-> value] ELSE p

(***************************************************************************)
(* The inputs: command definitions and what a child process emits           *)
(***************************************************************************)
Flags(f) == [t |-> "flags", f |-> f]

CommandText == <<"f", "o", "r", "c", "e", ":", "o", "r", "g", ":", "l", "i", "s", "t">>
FLAG_JSON == <<"F", "L", "A", "G", "_", "J", "S", "O", "N">>
FLAG_TARGETUSERNAME == <<"F", "L", "A", "G", "_", "T", "A", "R", "G", "E", "T",
                         "U", "S", "E", "R", "N", "A", "M", "E">>
FLAG_LOGLEVEL == <<"F", "L", "A", "G", "_", "L", "O", "G", "L", "E", "V", "E", "L">>

Definition(args, flags) ==
  [command |-> CommandText, commandArgs |-> args, commandFlags |-> flags,
   progressMsg |-> <<"working">>, errorMsg |-> <<"failed">>,
   successMsg |-> <<"done">>]

StdOutChunks ==
  {<<"{", "\"status\":1", ",", "\"name\":\"ScratchOrgNotFound\"">>,
   <<",", "\"message\":\"no such org\"", "}", "\n">>,
   <<"{", "\"status\":0", ",", "\"result\":{\"id\":\"abc\"}", "}">>,
   <<"Killed", "\n">>}

\* close(code, signal): an exit code and no signal, or no code and a signal.
CloseEvents ==
  {[code |-> Num(0), signal |-> Null],
   [code |-> Num(1), signal |-> Null],
   [code |-> Null, signal |-> Str(<<"SIGKILL">>)]}

\* The concatenation of the chunks of a stream, in arrival order.
RECURSIVE Flatten(_)
Flatten(chunks) ==
  IF chunks = <<>> THEN <<>> ELSE Head(chunks) \o Flatten(Tail(chunks))

(***************************************************************************)
(* executeSfdxCommand                                                       *)
(***************************************************************************)
dbgNs == <<"EXECUTOR:sfdx:", "executeSfdxCommand">>

\* safeParse(text): the parsed value, or the raw text when it does not parse.
safeParse(text) ==
  LET parsed == JSONparse(text)
  IN IF parsed.ok THEN parsed.value ELSE Str(text)

\* detectSalesforceCliError(text): the text is a JSON object that reports a
\* status other than 0.
detectSalesforceCliError(text) ==
  LET parsed == JSONparse(text)
  IN /\ parsed.ok
     /\ parsed.value.t = "object"
     /\ "status" \in DOMAIN parsed.value.o
     /\ parsed.value.o["status"] # Num(0)

\* A function that is not async: an exception of its body reaches the caller.
SyncFunction(bodyThrew, returned) ==
  IF bodyThrew
    THEN [thrown |-> TRUE, promise |-> NoPromise]
    ELSE [thrown |-> FALSE, promise |-> returned]

\* An async function: an exception of its body rejects the promise it
\* returns, and nothing is thrown at the caller.
AsyncFunction(bodyThrew, returned) ==
  IF bodyThrew
    THEN [thrown |-> FALSE, promise |-> [state |-> "rejected", value |-> "TypeError"]]
    ELSE [thrown |-> FALSE, promise |-> returned]

\* new Promise(executor): an exception of the executor rejects the promise.
NewPromise(executorThrew) ==
  IF executorThrew THEN [state |-> "rejected", value |-> "Error"] ELSE Pending

EmptyDetail ==
  [sfdxCommandString |-> Null, stdOutParsed |-> Null,
   stdOutBuffer |-> Null, stdErrBuffer |-> Null]

\* command: the string shell.exec was handed.
NoChild ==
  [state |-> "none", command |-> Null, out |-> <<>>, err |-> <<>>, code |-> Null,
   signal |-> Null]

\* An executor that sets SFDX_JSON_TO_STDOUT alone.
SetEnvJsonOnly(e) == [e EXCEPT !.SFDX_JSON_TO_STDOUT = Str(<<"true">>)]

\* shell.env['SFDX_JSON_TO_STDOUT'] = 'true' and
\* shell.env['SFDX_AUTOUPDATE_DISABLE'] = 'true'
SetEnv(e) ==
  [e EXCEPT !.SFDX_JSON_TO_STDOUT = Str(<<"true">>),
            !.SFDX_AUTOUPDATE_DISABLE = Str(<<"true">>)]

\* The body of executeSfdxCommand up to the return of the promise.
\* launchThrew: shell.exec threw instead of returning a child process.
ExecutorCall(def, launchThrew) ==
  LET parsed == parseSfdxCommand(def)
      launched == ~parsed.threw /\ ~launchThrew
      outcome == AsyncFunction(parsed.threw, NewPromise(launchThrew))
  IN /\ sfdxCommandDef' = def
     /\ executorResult' = NewResult("EXECUTOR", ExecutorOptions)
     /\ executorResultDetail' =
          [EmptyDetail EXCEPT !.sfdxCommandString =
                                 IF parsed.threw THEN Null ELSE Str(parsed.value)]
     /\ stdOutBuffer' = <<>>
     /\ stdErrBuffer' = <<>>
     /\ env' = IF parsed.threw THEN env ELSE SetEnv(env)
     /\ childProcess' = IF launched
                          THEN [NoChild EXCEPT !.state = "running",
                                               !.command = Str(parsed.value)]
                          ELSE NoChild
     /\ observer' = IF launched THEN <<"start">> ELSE <<>>
     /\ progressNotifications' = IF launched THEN "running" ELSE "none"
     /\ promise' = outcome.promise
     /\ thrown' = outcome.thrown
     /\ shell' = IF launched THEN Append(shell, "exec") ELSE shell

\* A stdout handler that settles as soon as the buffer holds a JSON document.
StdOutDataSettles ==
  /\ childProcess.state = "running"
  /\ Len(childProcess.out) < MaxOutChunks
  /\ \E chunk \in StdOutChunks :
       /\ stdOutBuffer' = stdOutBuffer \o chunk
       /\ childProcess' = [childProcess EXCEPT !.out = Append(@, chunk)]
       /\ promise' = IF JSONparse(stdOutBuffer \o chunk).ok
                       THEN Resolve(promise, "executorResult") ELSE promise
  /\ UNCHANGED <<sfdxCommandDef, thrown, executorResult, executorResultDetail,
                 stdErrBuffer, env, progressNotifications, observer>>
  /\ UNCHANGED <<shell, actionVars, cliVars, cmdVars, errVars, pluginVars, tree>>

\* A stdout handler that keeps only the last chunk ("=" for "+=").
StdOutDataOverwrites ==
  /\ childProcess.state = "running"
  /\ Len(childProcess.out) < MaxOutChunks
  /\ \E chunk \in StdOutChunks :
       /\ stdOutBuffer' = chunk
       /\ childProcess' = [childProcess EXCEPT !.out = Append(@, chunk)]
  /\ UNCHANGED <<sfdxCommandDef, promise, thrown, executorResult, executorResultDetail,
                 stdErrBuffer, env, progressNotifications, observer>>
  /\ UNCHANGED <<shell, actionVars, cliVars, cmdVars, errVars, pluginVars, tree>>

\* childProcess.stdout.on('data', ...)
StdOutData ==
  /\ childProcess.state = "running"
  /\ Len(childProcess.out) < MaxOutChunks
  /\ \E chunk \in StdOutChunks :
       /\ stdOutBuffer' = stdOutBuffer \o chunk
       /\ childProcess' = [childProcess EXCEPT !.out = Append(@, chunk)]
  /\ UNCHANGED <<sfdxCommandDef, promise, thrown, executorResult, executorResultDetail,
                 stdErrBuffer, env, progressNotifications, observer>>
  /\ UNCHANGED <<shell, actionVars, cliVars, cmdVars, errVars, pluginVars, tree>>

\* childProcess.stderr.on('data', ...)
StdErrData ==
  LET StdErrChunks ==
        {<<"sfdx: command not found", "\n">>, <<"WARNING">>}
  IN
  /\ childProcess.state = "running"
  /\ Len(childProcess.err) < MaxErrChunks
  /\ \E chunk \in StdErrChunks :
       /\ stdErrBuffer' = stdErrBuffer \o chunk
       /\ childProcess' = [childProcess EXCEPT !.err = Append(@, chunk)]
  /\ UNCHANGED <<sfdxCommandDef, promise, thrown, executorResult, executorResultDetail,
                 stdOutBuffer, env, progressNotifications, observer>>
  /\ UNCHANGED <<shell, actionVars, cliVars, cmdVars, errVars, pluginVars, tree>>

\* One tick of the interval started by FalconProgressNotifications.start2.
ProgressTick ==
  /\ progressNotifications = "running"
  /\ Len(SelectSeq(observer, LAMBDA n : n = "progress")) < MaxTicks
  /\ observer' = Append(observer, "progress")
  /\ UNCHANGED <<sfdxCommandDef, promise, thrown, executorResult, executorResultDetail,
                 stdOutBuffer, stdErrBuffer, env, childProcess, progressNotifications>>
  /\ UNCHANGED <<shell, actionVars, cliVars, cmdVars, errVars, pluginVars, tree>>

\* A close handler that rejects on a recognized CLI error as well.
CloseOutcomeRejectsFailure(code, signal, stdOut, stdErr, commandString, def) ==
  IF code # Num(0)
    THEN IF detectSalesforceCliError(stdOut)
           THEN [status |-> "FAILURE",
                 errObj |-> SfdxCliError(stdOut, def.errorMsg, dbgNs),
                 stdOutParsed |-> Null, notify |-> FALSE, settle |-> "reject"]
           ELSE [status |-> "ERROR",
                 errObj |-> ShellError(commandString, code, signal, stdErr, stdOut, dbgNs),
                 stdOutParsed |-> Null, notify |-> FALSE, settle |-> "reject"]
    ELSE [status |-> "SUCCESS", errObj |-> Null,
          stdOutParsed |-> safeParse(stdOut), notify |-> TRUE, settle |-> "resolve"]

\* A close handler that uses JSON.parse for safeParse: output that does not
\* parse makes an exit with code 0 an ERROR.
CloseOutcomeStrictParse(code, signal, stdOut, stdErr, commandString, def) ==
  IF code # Num(0)
    THEN IF detectSalesforceCliError(stdOut)
           THEN [status |-> "FAILURE",
                 errObj |-> SfdxCliError(stdOut, def.errorMsg, dbgNs),
                 stdOutParsed |-> Null, notify |-> FALSE, settle |-> "resolve"]
           ELSE [status |-> "ERROR",
                 errObj |-> ShellError(commandString, code, signal, stdErr, stdOut, dbgNs),
                 stdOutParsed |-> Null, notify |-> FALSE, settle |-> "reject"]
    ELSE IF JSONparse(stdOut).ok
      THEN [status |-> "SUCCESS", errObj |-> Null,
            stdOutParsed |-> JSONparse(stdOut).value, notify |-> TRUE,
            settle |-> "resolve"]
      ELSE [status |-> "ERROR",
            errObj |-> ShellError(commandString, code, signal, stdErr, stdOut, dbgNs),
            stdOutParsed |-> Null, notify |-> FALSE, settle |-> "reject"]

\* A close handler that looks for the CLI error in the stderr buffer.
CloseOutcomeReadsStdErr(code, signal, stdOut, stdErr, commandString, def) ==
  IF code # Num(0)
    THEN IF detectSalesforceCliError(stdErr)
           THEN [status |-> "FAILURE",
                 errObj |-> SfdxCliError(stdErr, def.errorMsg, dbgNs),
                 stdOutParsed |-> Null, notify |-> FALSE, settle |-> "resolve"]
           ELSE [status |-> "ERROR",
                 errObj |-> ShellError(commandString, code, signal, stdErr, stdOut, dbgNs),
                 stdOutParsed |-> Null, notify |-> FALSE, settle |-> "reject"]
    ELSE [status |-> "SUCCESS", errObj |-> Null,
          stdOutParsed |-> safeParse(stdOut), notify |-> TRUE, settle |-> "resolve"]

\* A close handler that stores the parsed stdout on every branch.
CloseOutcomeParsesAlways(code, signal, stdOut, stdErr, commandString, def) ==
  IF code # Num(0)
    THEN IF detectSalesforceCliError(stdOut)
           THEN [status |-> "FAILURE",
                 errObj |-> SfdxCliError(stdOut, def.errorMsg, dbgNs),
                 stdOutParsed |-> safeParse(stdOut), notify |-> FALSE,
                 settle |-> "resolve"]
           ELSE [status |-> "ERROR",
                 errObj |-> ShellError(commandString, code, signal, stdErr, stdOut, dbgNs),
                 stdOutParsed |-> safeParse(stdOut), notify |-> FALSE,
                 settle |-> "reject"]
    ELSE [status |-> "SUCCESS", errObj |-> Null,
          stdOutParsed |-> safeParse(stdOut), notify |-> TRUE, settle |-> "resolve"]

\* The branch the close handler takes: which status it sets, with which
\* error object, what it stores as stdOutParsed, whether it tells the
\* observer, and how it settles the promise.
CloseOutcome(code, signal, stdOut, stdErr, commandString, def) ==
  IF code # Num(0)
    THEN IF detectSalesforceCliError(stdOut)
           THEN [status |-> "FAILURE",
                 errObj |-> SfdxCliError(stdOut, def.errorMsg, dbgNs),
                 stdOutParsed |-> Null, notify |-> FALSE, settle |-> "resolve"]
           ELSE [status |-> "ERROR",
                 errObj |-> ShellError(commandString, code, signal, stdErr, stdOut, dbgNs),
                 stdOutParsed |-> Null, notify |-> FALSE, settle |-> "reject"]
    ELSE [status |-> "SUCCESS", errObj |-> Null,
          stdOutParsed |-> safeParse(stdOut), notify |-> TRUE, settle |-> "resolve"]

\* A close handler whose branches are not exclusive: after the branch for a
\* non-zero code it goes on to register the success.
CloseSetsTwice ==
  /\ childProcess.state = "running"
  /\ \E ev \in CloseEvents :
       LET o == CloseOutcome(ev.code, ev.signal, stdOutBuffer, stdErrBuffer,
                             executorResultDetail.sfdxCommandString.s, sfdxCommandDef)
           first == SetStatus(executorResult, o.status, o.errObj)
           set == IF o.status = "SUCCESS" THEN first
                  ELSE SetStatus(first.result, "SUCCESS", Null)
       IN /\ childProcess' = [childProcess EXCEPT !.state = "closed",
                                                  !.code = ev.code, !.signal = ev.signal]
          /\ progressNotifications' = "finished"
          /\ shell' = Append(shell, "close")
          /\ executorResultDetail' =
               [executorResultDetail EXCEPT !.stdOutBuffer = Str(stdOutBuffer),
                                            !.stdErrBuffer = Str(stdErrBuffer),
                                            !.stdOutParsed = o.stdOutParsed]
          /\ observer' = IF o.notify THEN Append(observer, "success") ELSE observer
          /\ executorResult' = set.result
          /\ promise' = IF o.settle = "resolve"
                          THEN Resolve(promise, "executorResult")
                          ELSE Reject(promise, "executorResult")
  /\ UNCHANGED <<sfdxCommandDef, thrown, stdOutBuffer, stdErrBuffer, env>>
  /\ UNCHANGED <<actionVars, cliVars, cmdVars, errVars, pluginVars, tree>>

\* A close handler that stops the progress notifications on the success
\* branch only.
CloseStopsOnSuccess ==
  /\ childProcess.state = "running"
  /\ \E ev \in CloseEvents :
       LET o == CloseOutcome(ev.code, ev.signal, stdOutBuffer, stdErrBuffer,
                             executorResultDetail.sfdxCommandString.s, sfdxCommandDef)
           set == SetStatus(executorResult, o.status, o.errObj)
       IN /\ childProcess' = [childProcess EXCEPT !.state = "closed",
                                                  !.code = ev.code, !.signal = ev.signal]
          /\ progressNotifications' = IF o.status = "SUCCESS" THEN "finished"
                                       ELSE progressNotifications
          /\ shell' = Append(shell, "close")
          /\ executorResultDetail' =
               [executorResultDetail EXCEPT !.stdOutBuffer = Str(stdOutBuffer),
                                            !.stdErrBuffer = Str(stdErrBuffer),
                                            !.stdOutParsed = o.stdOutParsed]
          /\ observer' = IF o.notify THEN Append(observer, "success") ELSE observer
          /\ executorResult' = set.result
          /\ promise' = IF set.threw THEN promise
                        ELSE IF o.settle = "resolve"
                          THEN Resolve(promise, "executorResult")
                          ELSE Reject(promise, "executorResult")
  /\ UNCHANGED <<sfdxCommandDef, thrown, stdOutBuffer, stdErrBuffer, env>>
  /\ UNCHANGED <<actionVars, cliVars, cmdVars, errVars, pluginVars, tree>>

\* childProcess.on('close', (code, signal) => ...)
Close ==
  /\ childProcess.state = "running"
  /\ \E ev \in CloseEvents :
       /\ childProcess' = [childProcess EXCEPT !.state = "closed",
                                               !.code = ev.code, !.signal = ev.signal]
       /\ progressNotifications' = "finished"
       /\ shell' = Append(shell, "close")
       /\ \E o \in {CloseOutcome(ev.code, ev.signal, stdOutBuffer, stdErrBuffer,
                                 executorResultDetail.sfdxCommandString.s,
                                 sfdxCommandDef)} :
          \E set \in {SetStatus(executorResult, o.status, o.errObj)} :
            /\ executorResultDetail' =
                 [executorResultDetail EXCEPT !.stdOutBuffer = Str(stdOutBuffer),
                                              !.stdErrBuffer = Str(stdErrBuffer),
                                              !.stdOutParsed = o.stdOutParsed]
            /\ observer' = IF o.notify THEN Append(observer, "success") ELSE observer
            /\ executorResult' = set.result
            /\ promise' = IF set.threw THEN promise
                          ELSE IF o.settle = "resolve"
                            THEN Resolve(promise, "executorResult")
                            ELSE Reject(promise, "executorResult")
  /\ UNCHANGED <<sfdxCommandDef, thrown, stdOutBuffer, stdErrBuffer, env>>
  /\ UNCHANGED <<actionVars, cliVars, cmdVars, errVars, pluginVars, tree>>

\* A caller of executeSfdxCommand other than an action.
CallExecutor ==
  LET \* What a direct caller of the executor passes: a well-formed definition, one
      \* whose argument needs quoting, and the two malformed ones.
      CommandDefs ==
        {Definition(Arr(<<>>),
                    Flags(<<[key |-> FLAG_JSON, value |-> Bool(TRUE)],
                            [key |-> FLAG_TARGETUSERNAME,
                             value |-> Str(<<"d", "e", "v", "@", "o", "r", "g">>)]>>)),
         Definition(Arr(<<Str(<<"i", "t", "'", "s">>)>>), Flags(<<>>)),
         Definition(Undefined, Flags(<<>>)),
         Definition(Arr(<<>>), Undefined)}
  IN
  /\ promise.state = "none"
  /\ action.state = "none"
  /\ \E def \in CommandDefs, launchThrew \in BOOLEAN : ExecutorCall(def, launchThrew)
  /\ UNCHANGED <<actionVars, cliVars, cmdVars, errVars, pluginVars, tree>>

\* A later operation of the caller on the Result it was handed: a call of
\* success(), failure() or error().
LateSet ==
  /\ promise.state \in Settled
  /\ promise.value = "executorResult"
  /\ executorResult.sets < 1 + MaxLateSets
  /\ \E status \in Terminal :
       executorResult' = SetStatus(executorResult, status, Null).result
  /\ UNCHANGED <<sfdxCommandDef, promise, thrown, executorResultDetail, stdOutBuffer,
                 stdErrBuffer, env, childProcess, progressNotifications, observer>>
  /\ UNCHANGED <<shell, actionVars, cliVars, cmdVars, errVars, pluginVars, tree>>

(***************************************************************************)
(* Folding a child Result into its parent                                   *)
(***************************************************************************)
\* addChild that bubbles whatever the parent's options are.
AddChildAlwaysBubbles(parent, child) ==
  LET recorded == [parent EXCEPT !.children =
                     Append(@, [type |-> child.type, status |-> child.status])]
  IN IF child.status \in {"ERROR", "FAILURE"}
       THEN [threw |-> TRUE, result |-> SetStatus(recorded, "ERROR", child.errObj).result]
       ELSE [threw |-> FALSE, result |-> recorded]

\* addChild(child): the child is recorded; its ERROR or FAILURE reaches the
\* parent's status only under the parent's bubble options, and a bubbled
\* error is thrown.
AddChild(parent, child) ==
  LET recorded == [parent EXCEPT !.children =
                     Append(@, [type |-> child.type, status |-> child.status])]
  IN IF child.status = "ERROR" /\ parent.bubbleError
       THEN [threw |-> TRUE, result |-> SetStatus(recorded, "ERROR", child.errObj).result]
     ELSE IF child.status = "FAILURE" /\ parent.bubbleFailure
       THEN IF parent.failureIsError
              THEN [threw |-> TRUE,
                    result |-> SetStatus(recorded, "ERROR", child.errObj).result]
              ELSE [threw |-> FALSE,
                    result |-> SetStatus(recorded, "FAILURE", child.errObj).result]
     ELSE [threw |-> FALSE, result |-> recorded]

\* What a rejection is wrapped as: a rejected Result is taken as it is,
\* anything else becomes an ERROR Result.
RejectedChild(value, result) ==
  IF value = "executorResult" THEN result
  ELSE [NewResult("EXECUTOR", ExecutorOptions) EXCEPT
          !.status = "ERROR",
          !.errObj = SfdxFalconError(<<value>>, value, <<>>)]

addResolvedChild(parent, resolved) == AddChild(parent, resolved)
addRejectedChild(parent, rejected) == AddChild(parent, rejected)

(***************************************************************************)
(* AppxEngineAction: an action instance and its way through execute()      *)
(***************************************************************************)
\* calls: the methods of the ACTION Result that the chain of executeAction
\* has called, in order.
NoAction == [name |-> "none", state |-> "none", options |-> Undefined, calls |-> <<>>]

Finished == {"SUCCEEDED", "FAILED", "ERRORED"}

TargetOrgAlias == <<"M", "y", "O", "r", "g">>
LogLevel == <<"d", "e", "b", "u", "g">>

\* An action that takes every set of options for valid.
ValidateNothing(name, actionOptions) == FALSE

validateActionOptions(name, actionOptions) ==
  LET \* validateActionOptions of DeleteScratchOrgAction.
      ValidateDeleteOptions(options) ==
        Get(options, "scratchOrgAlias").t = "undefined"
      \* validateActionOptions of ExecuteApexAction: TRUE stands for the thrown
      \* Error(ERROR_MISSING_OPTION: 'apexCodeFile').
      ValidateApexOptions(options) ==
        Get(options, "apexCodeFile").t = "undefined"
  IN
  IF name = "execute-apex" THEN ValidateApexOptions(actionOptions)
  ELSE ValidateDeleteOptions(actionOptions)

\* actionResponse.execSuccess(execResponse)
execSuccess(response, execResponse) ==
  [response EXCEPT !.execSuccess = Append(@, execResponse)]

\* The constructor and initializeAction.
InitializeAction ==
  LET ActionNames == {"execute-apex", "delete-scratch-org"}
  IN
  /\ action = NoAction
  /\ promise.state = "none"
  /\ \E name \in ActionNames :
       action' = [name |-> name, state |-> "INITIALIZED", options |-> Undefined,
                  calls |-> <<>>]
  /\ UNCHANGED <<actionResult, actionResponse, actionPromise, actionsRun>>
  /\ UNCHANGED <<execVars, cliVars, cmdVars, errVars, pluginVars, tree>>

\* execute(actionContext, actionOptions) of the base class: the options are
\* handed over for validation.
ActionExecute ==
  LET \* The options an action can be given: with or without the one it requires.
      ActionOptionSets(name) ==
        LET ScratchOrgAlias == <<"s", "c", "r", "a", "t", "c", "h">>
        IN
        LET ApexCodeFiles == {<<"a", ".", "a", "p", "e", "x">>, <<"m", "y", " ", "f", ".", "c", "l", "s">>}
        IN
        IF name = "execute-apex"
          THEN {Obj(<<>>)} \cup {Obj([apexCodeFile |-> Str(f)]) : f \in ApexCodeFiles}
          ELSE {Obj(<<>>), Obj([scratchOrgAlias |-> Str(ScratchOrgAlias)])}
  IN
  LET \* The response object the base class keeps for an action.
      NewActionResponse == [execSuccess |-> <<>>, execFailure |-> <<>>]
  IN
  /\ action.state = "INITIALIZED"
  /\ \E actionOptions \in ActionOptionSets(action.name) :
       action' = [action EXCEPT !.state = "VALIDATING", !.options = actionOptions]
  /\ actionResponse' = IF action.name = "delete-scratch-org"
                         THEN NewActionResponse ELSE actionResponse
  /\ UNCHANGED <<actionResult, actionPromise, actionsRun>>
  /\ UNCHANGED <<execVars, cliVars, cmdVars, errVars, pluginVars, tree>>

\* The validation step: a missing option ends the action with the
\* configuration error; otherwise executeAction is next.
ValidateOptions ==
  /\ action.state = "VALIDATING"
  /\ IF validateActionOptions(action.name, action.options)
       THEN /\ action' = [action EXCEPT !.state = "ERRORED"]
            /\ actionPromise' = [state |-> "rejected", value |-> "ERROR_MISSING_OPTION"]
       ELSE /\ action' = [action EXCEPT !.state = "EXECUTING"]
            /\ UNCHANGED actionPromise
  /\ UNCHANGED <<actionResult, actionResponse, actionsRun>>
  /\ UNCHANGED <<execVars, cliVars, cmdVars, errVars, pluginVars, tree>>

\* A chain that is not awaited: its reactions run although p is pending.
NotAwaited(p) == p.state # "none"

\* await p: the reactions run once p has settled.
Awaited(p) == p.state \in Settled

(***************************************************************************)
(* ExecuteApexAction                                                        *)
(***************************************************************************)

\* executeAction up to the await of the executor's promise.  path.join
\* throws a TypeError for a segment that is not a string, which rejects the
\* promise of executeAction before the executor is called.
ExecuteApexStart ==
  LET \* The sfdxCommandDef of executeAction.
      ApexCommandDef(apexCodeFile) ==
        LET FLAG_APEXCODEFILE == <<"F", "L", "A", "G", "_", "A", "P", "E", "X", "C", "O", "D",
                                   "E", "F", "I", "L", "E">>
        IN
        LET ApexCommand == <<"f", "o", "r", "c", "e", ":", "a", "p", "e", "x", ":",
                             "e", "x", "e", "c", "u", "t", "e">>
        IN
        LET ConfigPath == <<"c", "f", "g">>
        IN
        LET \* path.join(a, b) for two plain segments
            pathJoin(a, b) == a \o <<"/">> \o b
        IN
        [command |-> ApexCommand,
         progressMsg |-> <<"Executing anonymous Apex from '">> \o apexCodeFile \o <<"'">>,
         errorMsg |-> <<"Execution failed for anonymous Apex in '">> \o apexCodeFile \o <<"'">>,
         successMsg |-> <<"Execution of anonymous Apex in '">> \o apexCodeFile \o <<"' succeeded">>,
         commandArgs |-> Arr(<<>>),
         commandFlags |->
           Flags(<<[key |-> FLAG_TARGETUSERNAME, value |-> Str(TargetOrgAlias)],
                   [key |-> FLAG_APEXCODEFILE, value |-> Str(pathJoin(ConfigPath, apexCodeFile))],
                   [key |-> FLAG_JSON, value |-> Bool(TRUE)],
                   [key |-> FLAG_LOGLEVEL, value |-> Str(LogLevel)]>>)]
  IN
  LET ApexResultOptions ==
        [startNow |-> TRUE, bubbleError |-> TRUE, bubbleFailure |-> TRUE,
         failureIsError |-> TRUE]
  IN
  /\ action.name = "execute-apex"
  /\ action.state = "EXECUTING"
  /\ promise.state = "none"
  /\ actionPromise.state = "none"
  /\ LET apexCodeFile == Get(action.options, "apexCodeFile")
     IN IF apexCodeFile.t = "string"
          THEN /\ \E launchThrew \in BOOLEAN :
                    ExecutorCall(ApexCommandDef(apexCodeFile.s), launchThrew)
               /\ actionPromise' = Pending
          ELSE /\ actionPromise' = [state |-> "rejected", value |-> "TypeError"]
               /\ UNCHANGED execVars
  /\ actionResult' = NewResult("ACTION", ApexResultOptions)
  /\ UNCHANGED <<action, actionResponse, actionsRun>>
  /\ UNCHANGED <<cliVars, cmdVars, errVars, pluginVars, tree>>

\* A chain whose catch handler swallows the rejection and hands back the
\* ACTION Result without folding the child in.
ApexChainSwallows(p, result, child) ==
  IF p.state = "rejected"
    THEN [result |-> result, promise |-> Resolve(Pending, "actionResult"),
          calls |-> <<>>]
    ELSE LET r == AddChild(result, child)
         IN [result |-> r.result, calls |-> <<"addResolvedChild">>,
             promise |-> IF r.threw THEN Reject(Pending, "actionResult")
                         ELSE Resolve(Pending, "actionResult")]

\* A chain whose then handler also runs after the catch handler has thrown,
\* so that a rejected executor Result is folded in twice.
ApexChainAddsTwice(p, result, child) ==
  IF p.state = "rejected"
    THEN LET r == addRejectedChild(result, RejectedChild(p.value, child))
             again == addResolvedChild(r.result, RejectedChild(p.value, child))
         IN [result |-> again.result,
             calls |-> <<"addRejectedChild", "addResolvedChild">>,
             promise |-> IF r.threw \/ again.threw
                           THEN Reject(Pending, "actionResult")
                           ELSE Resolve(Pending, "actionResult")]
    ELSE LET r == addResolvedChild(result, child)
         IN [result |-> r.result, calls |-> <<"addResolvedChild">>,
             promise |-> IF r.threw THEN Reject(Pending, "actionResult")
                         ELSE Resolve(Pending, "actionResult")]

\* executeSfdxCommand(def).catch(addRejectedChild).then(addResolvedChild):
\* the ACTION Result and the promise executeAction returns, once the
\* executor's promise p has settled with the Result child.
\* A rejection goes to the catch handler alone when addRejectedChild throws
\* the bubbled error; when it returns, it returns the ACTION Result, and the
\* then handler hands that back without calling addResolvedChild
\* (resolvedPromise === actionResult).  A fulfilment skips the catch handler.
ApexChain(p, result, child) ==
  IF p.state = "rejected"
    THEN LET r == addRejectedChild(result, RejectedChild(p.value, child))
         IN [result |-> r.result, calls |-> <<"addRejectedChild">>,
             promise |-> IF r.threw THEN Reject(Pending, "actionResult")
                         ELSE Resolve(Pending, "actionResult")]
    ELSE LET r == addResolvedChild(result, child)
         IN [result |-> r.result, calls |-> <<"addResolvedChild">>,
             promise |-> IF r.threw THEN Reject(Pending, "actionResult")
                         ELSE Resolve(Pending, "actionResult")]

\* The reactions of the chain, run once the executor's promise has settled.
ExecuteApexSettle ==
  /\ action.name = "execute-apex"
  /\ actionPromise.state = "pending"
  /\ Awaited(promise)
  /\ LET chain == ApexChain(promise, actionResult, executorResult)
     IN /\ actionResult' = chain.result
        /\ actionPromise' = chain.promise
        /\ action' = [action EXCEPT !.calls = chain.calls]
  /\ UNCHANGED <<actionResponse, actionsRun>>
  /\ UNCHANGED <<execVars, cliVars, cmdVars, errVars, pluginVars, tree>>

(***************************************************************************)
(* DeleteScratchOrgAction                                                   *)
(***************************************************************************)

\* What a settled executor promise hands to the chain: the EXECUTOR Result,
\* or what an early rejection carries.
ExecResponse(p, child) ==
  IF p.value = "executorResult"
    THEN [name |-> "sfdx:executeSfdxCommand", status |-> child.status]
    ELSE [name |-> p.value, status |-> "ERROR"]

\* new SfdxFalconExecutorResponse('Suppressed Scratch Org Deletion Error')
\* followed by parse(execErrorResponse).
SuppressedResponse(p, child) ==
  [name |-> "Suppressed Scratch Org Deletion Error",
   status |-> ExecResponse(p, child).status]

\* executeAction up to the await of the executor's promise.
DeleteScratchOrgStart ==
  LET \* this.sfdxCommandDef of executeAction.
      DeleteCommandDef(scratchOrgAlias) ==
        LET DevHubAlias == <<"H", "u", "b">>
        IN
        LET FLAG_NOPROMPT == <<"F", "L", "A", "G", "_", "N", "O", "P", "R", "O", "M", "P", "T">>
        IN
        LET FLAG_TARGETDEVHUBUSERNAME == <<"F", "L", "A", "G", "_", "T", "A", "R", "G", "E", "T",
                                           "D", "E", "V", "H", "U", "B",
                                           "U", "S", "E", "R", "N", "A", "M", "E">>
        IN
        LET DeleteCommand == <<"f", "o", "r", "c", "e", ":", "o", "r", "g", ":",
                               "d", "e", "l", "e", "t", "e">>
        IN
        [command |-> DeleteCommand,
         progressMsg |-> <<"Marking scratch org '">> \o scratchOrgAlias \o <<"' for deletion">>,
         errorMsg |-> <<"Request to mark scratch org '">> \o scratchOrgAlias
                        \o <<"' for deletion failed">>,
         successMsg |-> <<"Scratch org '">> \o scratchOrgAlias
                          \o <<"' successfully marked for deletion">>,
         commandArgs |-> Arr(<<>>),
         commandFlags |->
           Flags(<<[key |-> FLAG_TARGETUSERNAME, value |-> Str(TargetOrgAlias)],
                   [key |-> FLAG_TARGETDEVHUBUSERNAME, value |-> Str(DevHubAlias)],
                   [key |-> FLAG_NOPROMPT, value |-> Bool(TRUE)],
                   [key |-> FLAG_JSON, value |-> Bool(TRUE)],
                   [key |-> FLAG_LOGLEVEL, value |-> Str(LogLevel)]>>)]
  IN
  /\ action.name = "delete-scratch-org"
  /\ action.state = "EXECUTING"
  /\ promise.state = "none"
  /\ actionPromise.state = "none"
  /\ \E launchThrew \in BOOLEAN :
       ExecutorCall(DeleteCommandDef(Template(Get(action.options, "scratchOrgAlias"))),
                    launchThrew)
  /\ actionPromise' = Pending
  /\ UNCHANGED <<action, actionResult, actionResponse, actionsRun>>
  /\ UNCHANGED <<cliVars, cmdVars, errVars, pluginVars, tree>>

\* A chain whose catch records the suppressed error and throws it again.
DeleteChainRethrows(p, response, child) ==
  IF p.state = "resolved"
    THEN [response |-> execSuccess(response, ExecResponse(p, child)),
          promise |-> Resolve(Pending, "undefined")]
    ELSE [response |-> execSuccess(response, SuppressedResponse(p, child)),
          promise |-> Reject(Pending, p.value)]

\* A chain that takes a FAILURE of the executor for a failure of the action.
DeleteChainPassesFailure(p, response, child) ==
  IF p.state = "resolved" /\ child.status = "SUCCESS"
    THEN [response |-> execSuccess(response, ExecResponse(p, child)),
          promise |-> Resolve(Pending, "undefined")]
    ELSE [response |-> [response EXCEPT !.execFailure =
                                          Append(@, ExecResponse(p, child))],
          promise |-> Reject(Pending, "execFailure")]

\* executeSfdxCommand(def).then(execSuccess).catch(suppress): the response
\* and the promise executeAction returns, once the executor's promise p has
\* settled.
DeleteChain(p, response, child) ==
  IF p.state = "resolved"
    THEN [response |-> execSuccess(response, ExecResponse(p, child)),
          promise |-> Resolve(Pending, "undefined")]
    ELSE [response |-> execSuccess(response, SuppressedResponse(p, child)),
          promise |-> Resolve(Pending, "undefined")]

\* The reactions of the chain, run once the executor's promise has settled.
DeleteScratchOrgSettle ==
  /\ action.name = "delete-scratch-org"
  /\ actionPromise.state = "pending"
  /\ Awaited(promise)
  /\ LET chain == DeleteChain(promise, actionResponse, executorResult)
     IN /\ actionResponse' = chain.response
        /\ actionPromise' = chain.promise
  /\ UNCHANGED <<action, actionResult, actionsRun>>
  /\ UNCHANGED <<execVars, cliVars, cmdVars, errVars, pluginVars, tree>>

\* The base class completes the action once executeAction has settled: an
\* ACTION Result that resolved without a bubbled failure becomes SUCCESS.
FinishAction ==
  /\ action.state = "EXECUTING"
  /\ actionPromise.state \in Settled
  /\ actionResult' =
       IF actionResult # Null /\ actionPromise.state = "resolved"
            /\ actionResult.status \notin Terminal
         THEN SetStatus(actionResult, "SUCCESS", Null).result
         ELSE actionResult
  /\ action' = [action EXCEPT !.state =
                  IF actionPromise.state = "resolved" THEN "SUCCEEDED"
                  ELSE IF actionResult # Null /\ actionResult.status = "FAILURE"
                    THEN "FAILED"
                  ELSE "ERRORED"]
  /\ UNCHANGED <<actionResponse, actionPromise, actionsRun>>
  /\ UNCHANGED <<execVars, cliVars, cmdVars, errVars, pluginVars, tree>>

\* The recipe goes on to its next action once the current one has finished;
\* the locals of the finished call are gone.
NextAction ==
  /\ action.state \in Finished
  /\ actionsRun + 1 < MaxActions
  /\ actionsRun' = actionsRun + 1
  /\ action' = NoAction
  /\ actionResult' = Null
  /\ actionResponse' = Null
  /\ actionPromise' = NoPromise
  /\ sfdxCommandDef' = Null
  /\ promise' = NoPromise
  /\ executorResult' = Null
  /\ executorResultDetail' = EmptyDetail
  /\ stdOutBuffer' = <<>>
  /\ stdErrBuffer' = <<>>
  /\ childProcess' = NoChild
  /\ progressNotifications' = "none"
  /\ observer' = <<>>
  /\ UNCHANGED <<thrown, env, shell, cliVars, cmdVars, errVars, pluginVars, tree>>

(***************************************************************************)
(* Specifications                                                           *)
(***************************************************************************)
ExecInit ==
  /\ sfdxCommandDef = Null
  /\ promise = NoPromise
  /\ thrown = FALSE
  /\ executorResult = Null
  /\ executorResultDetail = EmptyDetail
  /\ stdOutBuffer = <<>>
  /\ stdErrBuffer = <<>>
  /\ env = [SFDX_JSON_TO_STDOUT |-> Undefined, SFDX_AUTOUPDATE_DISABLE |-> Undefined]
  /\ childProcess = NoChild
  /\ progressNotifications = "none"
  /\ observer = <<>>
  /\ shell = <<>>
  /\ action = NoAction
  /\ actionResult = Null
  /\ actionResponse = Null
  /\ actionPromise = NoPromise
  /\ actionsRun = 0

CliIdle == cliIn = <<>> /\ cliOut = Null
CmdIdle == argIn = Null /\ argOut = Null /\ cmdIn = Null /\ cmdOut = Null
NoCall == [op |-> "none"]
ErrIdle == errors = <<>> /\ stackItems = <<>> /\ errCall = NoCall
TreeIdle == tree = Null
PairIdle == calls = Null
HelperIdle == falconDebug = Null /\ statusReport = Null /\ now = 0 /\ helperCall = NoCall
GeneratorIdle == initTasks = Null /\ generator = Null /\ createCommand = Null
PluginIdle == PairIdle /\ HelperIdle /\ GeneratorIdle

\* The executor, called directly or by ExecuteApexAction.
Init == ExecInit /\ CliIdle /\ CmdIdle /\ ErrIdle /\ PluginIdle /\ TreeIdle

Next ==
  \/ CallExecutor
  \/ InitializeAction
  \/ ActionExecute
  \/ ValidateOptions
  \/ ExecuteApexStart
  \/ DeleteScratchOrgStart
  \/ StdOutData
  \/ StdErrData
  \/ ProgressTick
  \/ Close
  \/ LateSet
  \/ ExecuteApexSettle
  \/ DeleteScratchOrgSettle
  \/ FinishAction

Spec == Init /\ [][Next]_vars

\* One direct call of the executor whose child process, once started, is
\* not kept from closing for ever.
SpecLive ==
  /\ Init
  /\ [][\/ CallExecutor
        \/ StdOutData
        \/ StdErrData
        \/ ProgressTick
        \/ Close]_vars
  /\ WF_vars(Close)

\* A recipe: actions run one after another, each through the executor.
NextRecipe ==
  \/ InitializeAction
  \/ ActionExecute
  \/ ValidateOptions
  \/ ExecuteApexStart
  \/ DeleteScratchOrgStart
  \/ StdOutData
  \/ Close
  \/ ExecuteApexSettle
  \/ DeleteScratchOrgSettle
  \/ FinishAction
  \/ NextAction

SpecRecipe == Init /\ [][NextRecipe]_vars

(***************************************************************************)
(* The SfdxCliError constructor on its own                                  *)
(***************************************************************************)
RECURSIVE Interleave(_)
Interleave(members) ==
  IF Len(members) <= 1 THEN members
  ELSE <<Head(members), ",">> \o Interleave(Tail(members))

Construct ==
  /\ cliOut = Null
  /\ cliOut' = SfdxCliError(cliIn, <<"failed">>, dbgNs)
  /\ UNCHANGED <<cliIn, execVars, actionVars, cmdVars, errVars, pluginVars, tree>>

SpecCli ==
  /\ LET \* Buffers: a JSON object, the same with a trailing newline, cut short, or
         \* after a line of plain text; a few scalar documents; plain text; nothing.
         CliBuffers ==
           LET MemberLists == UNION {[1..k -> MemberTokens] : k \in 0..MaxPairs}
           IN
           {<<>>, <<"null">>, <<"7">>, <<"\"text\"">>, <<"Killed", "\n">>}
             \cup UNION {{<<"{">> \o Interleave(m) \o <<"}">>,
                          <<"{">> \o Interleave(m) \o <<"}", "\n">>,
                          <<"{">> \o Interleave(m),
                          <<"Killed", "\n", "{">> \o Interleave(m) \o <<"}">>} : m \in MemberLists}
     IN /\ ExecInit /\ TreeIdle /\ CmdIdle /\ ErrIdle /\ PluginIdle
        /\ cliIn \in CliBuffers
        /\ cliOut = Null
  /\ [][Construct]_vars

(***************************************************************************)
(* The ShellError constructor on its own                                    *)
(***************************************************************************)

ConstructShell ==
  /\ cliOut = Null
  /\ cliOut' = ShellError(<<"sfdx force:org:list">>, cliIn.code, cliIn.signal,
                          cliIn.stdErr, cliIn.stdOut, dbgNs)
  /\ UNCHANGED <<cliIn, execVars, actionVars, cmdVars, errVars, pluginVars, tree>>

\* The arguments of new ShellError(...) with no explicit message: an exit
\* code or none, a signal or none, and for each of stderr and stdout nothing,
\* one line without a newline, one line with it, two lines, or an empty
\* first line.
SpecShell ==
  /\ LET ShellBuffers == {<<>>, <<"Killed">>, <<"Killed", "\n">>,
                          <<"Killed", "\n", "core dumped">>, <<"\n", "Killed">>}
     IN /\ ExecInit /\ TreeIdle /\ CmdIdle /\ ErrIdle /\ PluginIdle
        /\ cliIn \in [code : {Num(1), Num(127), Null},
                      signal : {Null, Str(<<"SIGKILL">>)},
                      stdErr : ShellBuffers, stdOut : ShellBuffers]
        /\ cliOut = Null
  /\ [][ConstructShell]_vars

(***************************************************************************)
(* A parent Result and the children folded into it                          *)
(***************************************************************************)

\* The owning layer sets the parent's status.
TreeSet ==
  /\ tree.parent.sets < MaxTreeSets
  /\ \E status \in Terminal :
       tree' = [parent |-> SetStatus(tree.parent, status, Null).result,
                last |-> [op |-> "set", child |-> status, threw |-> FALSE,
                          before |-> tree.parent.status]]
  /\ UNCHANGED <<execVars, actionVars, cliVars, cmdVars, errVars, pluginVars>>

\* A resolved child (SUCCESS or FAILURE) is folded in.
TreeAddResolved ==
  /\ Len(tree.parent.children) < MaxChildren
  /\ \E status \in {"SUCCESS", "FAILURE"} :
       LET child == [NewResult("EXECUTOR", ExecutorOptions) EXCEPT !.status = status]
           r == addResolvedChild(tree.parent, child)
       IN tree' = [parent |-> r.result,
                   last |-> [op |-> "addResolvedChild", child |-> status,
                             threw |-> r.threw, before |-> tree.parent.status]]
  /\ UNCHANGED <<execVars, actionVars, cliVars, cmdVars, errVars, pluginVars>>

\* A rejected child (ERROR) is folded in.
TreeAddRejected ==
  /\ Len(tree.parent.children) < MaxChildren
  /\ LET child == RejectedChild("Error", Null)
         r == addRejectedChild(tree.parent, child)
     IN tree' = [parent |-> r.result,
                 last |-> [op |-> "addRejectedChild", child |-> "ERROR",
                           threw |-> r.threw, before |-> tree.parent.status]]
  /\ UNCHANGED <<execVars, actionVars, cliVars, cmdVars, errVars, pluginVars>>

SpecTree ==
  /\ LET NoFold == [op |-> "none", child |-> "none", threw |-> FALSE, before |-> "none"]
     IN
     LET AllOptions ==
           [startNow : BOOLEAN, bubbleError : BOOLEAN, bubbleFailure : BOOLEAN,
            failureIsError : BOOLEAN]
     IN
     /\ ExecInit
     /\ CliIdle
     /\ CmdIdle
     /\ ErrIdle /\ PluginIdle
     /\ tree \in {[parent |-> NewResult("ACTION", o), last |-> NoFold] : o \in AllOptions}
  /\ [][TreeSet \/ TreeAddResolved \/ TreeAddRejected]_vars

(***************************************************************************)
(* sanitizeArgument and parseSfdxCommand on their own                       *)
(***************************************************************************)

RECURSIVE Texts(_)
Texts(n) ==
  LET \* The characters arguments are built from: one of each kind the sanitizer
      \* and the shell tell apart.
      ArgAlphabet == {"a", "Z", "7", "_", "/", ":", "=", "-", "'", "\\", " ", "$"}
  IN
  IF n = 0 THEN {<<>>}
  ELSE Texts(n - 1) \cup {Append(t, c) : t \in Texts(n - 1), c \in ArgAlphabet}

CallSanitize ==
  /\ argOut = Null
  /\ argOut' = Str(sanitizeArgument(argIn))
  /\ UNCHANGED <<argIn, cmdIn, cmdOut, execVars, actionVars, cliVars, errVars, pluginVars, tree>>

SpecSanitize ==
  /\ LET Arguments == {Str(t) : t \in Texts(MaxArgLen)}
     IN
     /\ ExecInit /\ CliIdle /\ TreeIdle /\ ErrIdle /\ PluginIdle
     /\ argIn \in Arguments
     /\ argOut = Null
     /\ cmdIn = Null
     /\ cmdOut = Null
  /\ [][CallSanitize]_vars

RECURSIVE ShellScan(_, _, _, _)
ShellScan(rest, word, inWord, words) ==
  LET \* The words a POSIX shell makes of a command text: blanks separate words,
      \* a backslash makes the next character literal, single quotes make
      \* everything up to the next single quote literal.  ok is FALSE when a quote
      \* is left open or a character the shell gives a meaning to is unquoted.
      ShellSpecial == {"$", ";", "&", "|", "<", ">", "(", ")", "*", "?", "#"}
  IN
  IF rest = <<>>
    THEN [ok |-> TRUE, words |-> IF inWord THEN Append(words, word) ELSE words]
  ELSE IF Head(rest) \in Blank
    THEN ShellScan(Tail(rest), <<>>, FALSE,
                   IF inWord THEN Append(words, word) ELSE words)
  ELSE IF Head(rest) = "\\"
    THEN IF Len(rest) = 1
           THEN ShellScan(<<>>, Append(word, "\\"), TRUE, words)
           ELSE ShellScan(SubSeq(rest, 3, Len(rest)), Append(word, rest[2]), TRUE, words)
  ELSE IF Head(rest) = "'"
    THEN IF \E i \in 2..Len(rest) : rest[i] = "'"
           THEN LET close == CHOOSE i \in 2..Len(rest) :
                               rest[i] = "'" /\ \A j \in 2..(i - 1) : rest[j] # "'"
                IN ShellScan(SubSeq(rest, close + 1, Len(rest)),
                             word \o SubSeq(rest, 2, close - 1), TRUE, words)
           ELSE [ok |-> FALSE, words |-> words]
  ELSE IF Head(rest) \in ShellSpecial
    THEN [ok |-> FALSE, words |-> words]
  ELSE LET plain(i) == rest[i] \notin Blank \cup ShellSpecial \cup {"\\", "'"}
           run == CHOOSE n \in 1..Len(rest) :
                    /\ \A i \in 1..n : plain(i)
                    /\ n < Len(rest) => ~plain(n + 1)
       IN ShellScan(SubSeq(rest, run + 1, Len(rest)), word \o SubSeq(rest, 1, run),
                    TRUE, words)

ShellWords(text) == ShellScan(text, <<>>, FALSE, <<>>)

\* The definitions parseSfdxCommand is given: one flag, with each kind of
\* key and of value.
FLAG_U == <<"F", "L", "A", "G", "_", "U">>
JSON_KEY == <<"J", "S", "O", "N">>

CallParse ==
  /\ cmdOut = Null
  /\ cmdOut' = Str(parseSfdxCommand(cmdIn).value)
  /\ UNCHANGED <<argIn, argOut, cmdIn, execVars, actionVars, cliVars, errVars, pluginVars, tree>>

SpecCommand ==
  /\ LET FlagDefs ==
           LET FlagValues ==
                 {Bool(TRUE), Bool(FALSE), Num(0), Num(7)} \cup {Str(t) : t \in Texts(MaxArgLen - 1)}
           IN
           LET FlagKeys ==
                 LET flag_json == <<"f", "l", "a", "g", "_", "j", "s", "o", "n">>
                 IN
                           {FLAG_JSON, FLAG_U, flag_json, JSON_KEY}
           IN
           {Definition(Arr(<<>>), Flags(<<[key |-> k, value |-> v]>>)) :
              k \in FlagKeys, v \in FlagValues}
     IN
     /\ ExecInit /\ CliIdle /\ TreeIdle /\ ErrIdle /\ PluginIdle
     /\ argIn = Null
     /\ argOut = Null
     /\ cmdIn \in FlagDefs
     /\ cmdOut = Null
  /\ [][CallParse]_vars

(***************************************************************************)
(* parseSfdxCommand over the keys of commandFlags                           *)
(***************************************************************************)

RECURSIVE KeyRests(_)
KeyRests(n) ==
  LET \* What follows the prefix: letters of both cases, a digit, the hyphen and
      \* two characters sanitizeFlag removes.
      KeyAlphabet == {"U", "n", "7", "-", "_", " "}
  IN
  IF n = 0 THEN {<<>>}
  ELSE KeyRests(n - 1) \cup {Append(t, c) : t \in KeyRests(n - 1), c \in KeyAlphabet}

SpecFlagKeys ==
  /\ LET KeyDefs ==
           LET \* The first five characters of a key, as callers may write them, and two
               \* that are not the prefix.
               KeyPrefixes ==
                 {<<"F", "L", "A", "G", "_">>, <<"f", "l", "a", "g", "_">>, <<"F", "l", "a", "g", "_">>,
                  <<"F", "L", "A", "G", "S">>, <<"J", "S", "O", "N", "_">>}
           IN
           {Definition(Arr(<<>>), Flags(<<[key |-> p \o r, value |-> v]>>)) :
              p \in KeyPrefixes, r \in KeyRests(MaxKeyLen), v \in {Bool(TRUE), Str(<<"x">>)}}
     IN
     /\ ExecInit /\ CliIdle /\ TreeIdle /\ ErrIdle /\ PluginIdle
     /\ argIn = Null
     /\ argOut = Null
     /\ cmdIn \in KeyDefs
     /\ cmdOut = Null
  /\ [][CallParse]_vars

(***************************************************************************)
(* parseSfdxCommand over several arguments and flags                        *)
(***************************************************************************)

RECURSIVE ListsOf(_, _)
ListsOf(pool, n) ==
  IF n = 0 THEN {<<>>}
  ELSE ListsOf(pool, n - 1) \cup {Append(l, e) : l \in ListsOf(pool, n - 1), e \in pool}

SpecOrder ==
  /\ LET OrderDefs ==
           LET \* An object has each key once.
               DistinctKeys(flags) ==
                 \A i, j \in 1..Len(flags) : flags[i].key = flags[j].key => i = j
           IN
           LET FlagPool ==
                 {[key |-> FLAG_JSON, value |-> Bool(TRUE)],
                  [key |-> FLAG_TARGETUSERNAME, value |-> Str(<<"d", "e", "v", "@", "o", "r", "g">>)],
                  [key |-> FLAG_U, value |-> Str(<<"x", " ", "y">>)],
                  [key |-> JSON_KEY, value |-> Str(<<"z">>)]}
           IN
           LET \* The positional arguments and the flags a definition is made of.
               ArgPool == {Str(<<"a">>), Str(<<"b", " ", "c">>), Str(<<"i", "t", "'", "s">>)}
           IN
           {Definition(Arr(args), Flags(flags)) :
              args \in ListsOf(ArgPool, MaxArgs),
              flags \in {l \in ListsOf(FlagPool, MaxFlags) : DistinctKeys(l)}}
     IN
     /\ ExecInit /\ CliIdle /\ TreeIdle /\ ErrIdle /\ PluginIdle
     /\ argIn = Null
     /\ argOut = Null
     /\ cmdIn \in OrderDefs
     /\ cmdOut = Null
  /\ [][CallParse]_vars

(***************************************************************************)
(* parseSfdxCommand over every field of the definition                      *)
(***************************************************************************)

\* Definitions whose command is a plain command name, one with a shell
\* operator in it or one with a blank in it, with one positional argument
\* and one flag whose value is plain or needs quoting.
SpecInject ==
  /\ LET Commands == {CommandText, CommandText \o <<";", "i", "d">>,
                      <<"f", "o", "r", "c", "e", " ", "-", "h">>}
         Values == {Str(<<"d", "e", "v">>), Str(<<"$", "(", "i", "d", ")">>)}
     IN /\ ExecInit /\ CliIdle /\ TreeIdle /\ ErrIdle /\ PluginIdle
        /\ argIn = Null
        /\ argOut = Null
        /\ cmdIn \in {[Definition(Arr(<<Str(t)>>),
                                   Flags(<<[key |-> FLAG_TARGETUSERNAME, value |-> v]>>))
                          EXCEPT !.command = c] :
                          c \in Commands, t \in Texts(MaxArgLen - 1), v \in Values}
        /\ cmdOut = Null
  /\ [][CallParse]_vars

(***************************************************************************)
(* SfdxFalconError objects: wrap, rootCause and addToStack.  An object is   *)
(* known by its place in errors; Ref(i) is the reference to the i-th.       *)
(***************************************************************************)
Ref(i) == [t |-> "ref", i |-> i]
Refs(h) == {Ref(i) : i \in 1..Len(h)}

FalconClasses == {"SfdxFalconError", "SfdxCliError", "ShellError"}

\* error instanceof SfdxFalconError, error instanceof Error
InstanceOfSfdxFalconError(h, error) == error.t = "ref" /\ h[error.i].class \in FalconClasses
InstanceOfError(h, error) == error.t = "ref"

\* new SfdxFalconError(message, name, source, cause), or a subclass of it.
NewSfdxFalconError(h, class, message, name, source, cause) ==
  LET \* The own enumerable properties the SfdxFalconError constructor assigns.
      FalconOwn == {"data", "source", "_detail", "_userInfo", "_debugInfo", "_devInfo",
                    "_resultStack"}
  IN
  [class |-> class,
   name |-> OrElse(name, Str(<<"SfdxFalconError">>)),
   message |-> message,
   source |-> IF source = Undefined THEN Str(<<"Unhandled Exception">>) ELSE source,
   cause |-> cause,
   resultStack |-> IF Truthy(cause)
                     THEN OrElse(h[cause.i].resultStack, Str(<<>>))
                     ELSE Str(<<>>),
   detail |-> Obj(<<>>),
   data |-> Obj(<<>>),
   own |-> FalconOwn]

indent == "    "

\* An addToStack that appends the new line after the ones there are.
addToStackAtEnd(e, stackItem) ==
  [e EXCEPT !.resultStack =
     IF Truthy(@) THEN Str(@.s \o <<"\n", indent, stackItem>>)
     ELSE Str(<<indent, stackItem>>)]

\* addToStack(stackItem) on the object e.
addToStack(e, stackItem) ==
  [e EXCEPT !.resultStack =
     IF Truthy(@) THEN Str(<<indent, stackItem, "\n">> \o @.s)
     ELSE Str(<<indent, stackItem>>)]

\* lodash isEmpty(value)
isEmpty(h, value) ==
  CASE value.t = "ref" -> h[value.i].own = {}
    [] value.t = "string" -> value.s = <<>>
    [] value.t = "array" -> value.a = <<>>
    [] value.t = "object" -> DOMAIN value.o = {}
    [] OTHER -> TRUE

\* A rootCause that follows every cause, empty or not.
RECURSIVE rootCauseToTheEnd(_, _)
rootCauseToTheEnd(h, this) ==
  IF Truthy(h[this.i].cause) THEN rootCauseToTheEnd(h, h[this.i].cause) ELSE this

\* get rootCause() of the object this.
RECURSIVE rootCause(_, _)
rootCause(h, this) ==
  IF Truthy(h[this.i].cause) /\ ~isEmpty(h, h[this.i].cause)
    THEN rootCause(h, h[this.i].cause)
    ELSE this

UnknownErrorMsg == <<"Additional error detail saved to the SfdxFalconError.data Object.">>

\* A wrap that wraps whatever it is given.
wrapAnew(h, error, source) ==
  [heap |-> Append(h, NewSfdxFalconError(h, "SfdxFalconError",
                                         IF error.t = "ref" THEN h[error.i].message
                                         ELSE Str(UnknownErrorMsg),
                                         IF error.t = "ref" THEN h[error.i].name
                                         ELSE Str(<<"UnknownError">>),
                                         source, Undefined)),
   ref |-> Ref(Len(h) + 1)]

\* SfdxFalconError.wrap(error, source): the objects there are after the
\* call and the reference returned.
wrap(h, error, source) ==
  IF InstanceOfSfdxFalconError(h, error)
    THEN [heap |-> h, ref |-> error]
  ELSE IF InstanceOfError(h, error)
    THEN [heap |-> Append(h, NewSfdxFalconError(h, "SfdxFalconError", h[error.i].message,
                                                h[error.i].name, source, Undefined)),
          ref |-> Ref(Len(h) + 1)]
  ELSE [heap |-> Append(h, [NewSfdxFalconError(h, "SfdxFalconError", Str(UnknownErrorMsg),
                                               Str(<<"UnknownError">>), Undefined,
                                               Undefined)
                              EXCEPT !.data = Obj([unknownObj |-> error])]),
        ref |-> Ref(Len(h) + 1)]

ErrorMsg == Str(<<"boom">>)
Sources == {Undefined, Str(<<"ACTION:x">>), Str(<<"RECIPE:y">>)}

\* What stackItems keeps of an object: the result stack it was constructed
\* with and the items added to it since, in call order.
Started(text) == [inherited |-> text, added |-> <<>>]

\* Other code constructs an Error.
ThrowError ==
  LET \* An Error made by other code: own holds its own enumerable properties,
      \* none for new Error(message), some for a system error (code, errno).
      PlainError(name, message, own) ==
        [class |-> "Error", name |-> name, message |-> message, source |-> Undefined,
         cause |-> Undefined, resultStack |-> Undefined, detail |-> Undefined,
         data |-> Undefined, own |-> own]
  IN
  LET ErrorOwn == {{}, {"code"}}
  IN
  LET \* What the callers pass.
      ErrorNames == {Str(<<"TypeError">>), Str(<<>>)}
  IN
  /\ Len(errors) < MaxErrors
  /\ \E name \in ErrorNames, own \in ErrorOwn :
       errors' = Append(errors, PlainError(name, ErrorMsg, own))
  /\ stackItems' = Append(stackItems, Started(Str(<<>>)))
  /\ errCall' = NoCall
  /\ UNCHANGED <<execVars, actionVars, cliVars, cmdVars, pluginVars, tree>>

\* new SfdxFalconError(...), new SfdxCliError(...), new ShellError(...),
\* with or without a cause.
ConstructError ==
  /\ Len(errors) < MaxErrors
  /\ \E class \in FalconClasses, cause \in {Undefined} \cup Refs(errors) :
       LET e == NewSfdxFalconError(errors, class, ErrorMsg, Str(<<class>>),
                                   Str(<<"EXECUTOR:sfdx">>), cause)
       IN /\ errors' = Append(errors, e)
          /\ stackItems' = Append(stackItems, Started(e.resultStack))
  /\ errCall' = NoCall
  /\ UNCHANGED <<execVars, actionVars, cliVars, cmdVars, pluginVars, tree>>

\* SfdxFalconError.wrap(error, source)
WrapCall ==
  LET NonErrors == {Str(<<"oops">>), Null, Obj([status |-> Num(1)])}
  IN
  /\ Len(errors) < MaxErrors
  /\ \E error \in Refs(errors) \cup NonErrors, source \in Sources :
       LET w == wrap(errors, error, source)
       IN /\ errors' = w.heap
          /\ stackItems' = IF Len(w.heap) > Len(errors)
                             THEN Append(stackItems, Started(w.heap[w.ref.i].resultStack))
                             ELSE stackItems
          /\ errCall' = [op |-> "wrap", error |-> error, source |-> source,
                         before |-> errors, returned |-> w.ref]
  /\ UNCHANGED <<execVars, actionVars, cliVars, cmdVars, pluginVars, tree>>

RECURSIVE Sum(_)
Sum(lens) == IF lens = <<>> THEN 0 ELSE Head(lens) + Sum(Tail(lens))

\* error.addToStack(stackItem)
AddToStackCall ==
  LET AddedInAll == Sum([i \in 1..Len(stackItems) |-> Len(stackItems[i].added)])
  IN
  LET StackItems == {"EXECUTOR:sfdx", "ACTION:apex"}
  IN
  /\ AddedInAll < MaxStackItems
  /\ \E this \in Refs(errors), stackItem \in StackItems :
       /\ InstanceOfSfdxFalconError(errors, this)
       /\ errors' = [errors EXCEPT ![this.i] = addToStack(@, stackItem)]
       /\ stackItems' = [stackItems EXCEPT ![this.i].added = Append(@, stackItem)]
  /\ errCall' = NoCall
  /\ UNCHANGED <<execVars, actionVars, cliVars, cmdVars, pluginVars, tree>>

\* error.rootCause
RootCauseCall ==
  /\ \E this \in Refs(errors) :
       /\ InstanceOfSfdxFalconError(errors, this)
       /\ errCall' = [op |-> "rootCause", error |-> this, source |-> Undefined,
                      before |-> errors, returned |-> rootCause(errors, this)]
  /\ UNCHANGED <<errors, stackItems, execVars, actionVars, cliVars, cmdVars, pluginVars, tree>>

SpecError ==
  /\ Init
  /\ [][\/ ThrowError
        \/ ConstructError
        \/ WrapCall
        \/ AddToStackCall
        \/ RootCauseCall]_vars

(***************************************************************************)
(* Two calls of executeSfdxCommand in flight at once                        *)
(***************************************************************************)

\* The body of executeSfdxCommand up to the return of the promise, for call c.
PairCall(c) ==
  LET def == IF c = 1
               THEN Definition(Arr(<<>>), Flags(<<[key |-> FLAG_JSON, value |-> Bool(TRUE)]>>))
               ELSE Definition(Arr(<<Str(<<"a", " ", "b">>)>>), Flags(<<>>))
      sfdxCommandString == Str(parseSfdxCommand(def).value)
  IN /\ calls[c].promise.state = "none"
     /\ calls' = [calls EXCEPT ![c] =
          [sfdxCommandDef |-> def,
           executorResult |-> NewResult("EXECUTOR", ExecutorOptions),
           executorResultDetail |->
             [EmptyDetail EXCEPT !.sfdxCommandString = sfdxCommandString],
           stdOutBuffer |-> <<>>,
           stdErrBuffer |-> <<>>,
           childProcess |-> [NoChild EXCEPT !.state = "running",
                                            !.command = sfdxCommandString],
           promise |-> AsyncFunction(FALSE, NewPromise(FALSE)).promise,
           progressNotifications |-> "running",
           observer |-> <<"start">>]]
     /\ env' = SetEnv(env)
     /\ UNCHANGED <<sfdxCommandDef, promise, thrown, executorResult, executorResultDetail,
                    stdOutBuffer, stdErrBuffer, childProcess, progressNotifications,
                    observer, shell>>
     /\ UNCHANGED <<actionVars, cliVars, cmdVars, errVars, tree, falconDebug,
                    statusReport, now, helperCall, initTasks, generator, createCommand>>

\* A stdout handler that appends to a buffer declared outside the function,
\* so that every call in flight sees the chunk.
PairStdOutShared(c) ==
  /\ calls[c].childProcess.state = "running"
  /\ Len(calls[c].childProcess.out) < MaxPairChunks
  /\ \E chunk \in {<<"Killed", "\n">>} :
       calls' = [d \in 1..2 |->
                  [calls[d] EXCEPT
                     !.stdOutBuffer = IF calls[d].childProcess.state = "running"
                                        THEN @ \o chunk ELSE @,
                     !.childProcess.out = IF d = c THEN Append(@, chunk) ELSE @]]
  /\ UNCHANGED <<execVars, actionVars, cliVars, cmdVars, errVars, tree, falconDebug,
                 statusReport, now, helperCall, initTasks, generator, createCommand>>

\* childProcess.stdout.on('data', ...) of call c
PairStdOut(c) ==
  /\ calls[c].childProcess.state = "running"
  /\ Len(calls[c].childProcess.out) < MaxPairChunks
  /\ \E chunk \in IF c = 1
                     THEN {<<"{", "\"status\":1", ",", "\"name\":\"ScratchOrgNotFound\"", "}">>,
                           <<"Killed", "\n">>}
                     ELSE {<<"{", "\"status\":0", ",", "\"result\":{\"id\":\"abc\"}", "}">>,
                           <<"{", "\"status\":1", ",", "\"message\":\"no such org\"", "}">>} :
       calls' = [calls EXCEPT ![c].stdOutBuffer = @ \o chunk,
                              ![c].childProcess.out = Append(@, chunk)]
  /\ UNCHANGED <<execVars, actionVars, cliVars, cmdVars, errVars, tree, falconDebug,
                 statusReport, now, helperCall, initTasks, generator, createCommand>>

\* childProcess.stderr.on('data', ...) of call c
PairStdErr(c) ==
  /\ calls[c].childProcess.state = "running"
  /\ Len(calls[c].childProcess.err) < MaxPairChunks
  /\ \E chunk \in IF c = 1 THEN {<<"sfdx: command not found", "\n">>}
                            ELSE {<<"WARNING">>} :
       calls' = [calls EXCEPT ![c].stdErrBuffer = @ \o chunk,
                              ![c].childProcess.err = Append(@, chunk)]
  /\ UNCHANGED <<execVars, actionVars, cliVars, cmdVars, errVars, tree, falconDebug,
                 statusReport, now, helperCall, initTasks, generator, createCommand>>

\* childProcess.on('close', ...) of call c
PairClose(c) ==
  /\ calls[c].childProcess.state = "running"
  /\ \E ev \in CloseEvents :
       LET call == calls[c]
           o == CloseOutcome(ev.code, ev.signal, call.stdOutBuffer, call.stdErrBuffer,
                             call.executorResultDetail.sfdxCommandString.s,
                             call.sfdxCommandDef)
           set == SetStatus(call.executorResult, o.status, o.errObj)
       IN calls' = [calls EXCEPT ![c] =
            [call EXCEPT
               !.childProcess = [@ EXCEPT !.state = "closed", !.code = ev.code,
                                          !.signal = ev.signal],
               !.progressNotifications = "finished",
               !.executorResultDetail =
                  [@ EXCEPT !.stdOutBuffer = Str(call.stdOutBuffer),
                            !.stdErrBuffer = Str(call.stdErrBuffer),
                            !.stdOutParsed = o.stdOutParsed],
               !.observer = IF o.notify THEN Append(@, "success") ELSE @,
               !.executorResult = set.result,
               !.promise = IF set.threw THEN @
                           ELSE IF o.settle = "resolve"
                             THEN Resolve(@, "executorResult")
                             ELSE Reject(@, "executorResult")]]
  /\ UNCHANGED <<execVars, actionVars, cliVars, cmdVars, errVars, tree, falconDebug,
                 statusReport, now, helperCall, initTasks, generator, createCommand>>

\* Each call has its own definition, and its child process writes chunks no
\* other child writes.  calls[c] holds the locals of call c: what
\* executeSfdxCommand declares with let and const, and the child process it
\* started.  shell.env is the one object both calls write to.
PairInit ==
  /\ ExecInit /\ CliIdle /\ CmdIdle /\ ErrIdle /\ TreeIdle /\ HelperIdle /\ GeneratorIdle
  /\ calls = [c \in 1..2 |->
               [sfdxCommandDef |-> Null, executorResult |-> Null,
                executorResultDetail |-> EmptyDetail, stdOutBuffer |-> <<>>,
                stdErrBuffer |-> <<>>, childProcess |-> NoChild, promise |-> NoPromise,
                progressNotifications |-> "none", observer |-> <<>>]]

SpecPair ==
  /\ PairInit
  /\ [][\E c \in 1..2 : PairCall(c) \/ PairStdOut(c) \/ PairStdErr(c) \/ PairClose(c)]_vars

(***************************************************************************)
(* FalconDebug and FalconStatusReport                                       *)
(***************************************************************************)

\* Time passes between two calls.
ClockTick ==
  /\ now < 1 + MaxClock
  /\ now' = now + 1
  /\ UNCHANGED <<falconDebug, statusReport, helperCall>>
  /\ UNCHANGED <<execVars, actionVars, cliVars, cmdVars, errVars, tree, calls,
                 initTasks, generator, createCommand>>

\* A setDebugEnablement without the test of debugInitialized.
SetDebugEnablementAgain ==
  /\ \E args \in [debugEnabled : BOOLEAN, debugAsyncEnabled : BOOLEAN,
                  debugExtendedEnabled : BOOLEAN] :
       /\ falconDebug' = args @@ [debugInitialized |-> TRUE]
       /\ helperCall' = [op |-> "setDebugEnablement", args |-> args, threw |-> FALSE,
                         error |-> Null, returned |-> Undefined, before |-> falconDebug]
  /\ UNCHANGED <<statusReport, now>>
  /\ UNCHANGED <<execVars, actionVars, cliVars, cmdVars, errVars, tree, calls,
                 initTasks, generator, createCommand>>

\* FalconDebug.setDebugEnablement(debugEnabled, debugAsyncEnabled,
\* debugExtendedEnabled)
SetDebugEnablement ==
  /\ \E args \in [debugEnabled : BOOLEAN, debugAsyncEnabled : BOOLEAN,
                  debugExtendedEnabled : BOOLEAN] :
       IF falconDebug.debugInitialized = TRUE
         THEN /\ falconDebug' = falconDebug
              /\ helperCall' = [op |-> "setDebugEnablement", args |-> args,
                                threw |-> TRUE, error |-> "ERROR_DEBUG_OPTIONS_SET",
                                returned |-> Undefined, before |-> falconDebug]
         ELSE /\ falconDebug' = args @@ [debugInitialized |-> TRUE]
              /\ helperCall' = [op |-> "setDebugEnablement", args |-> args,
                                threw |-> FALSE, error |-> Null,
                                returned |-> Undefined, before |-> falconDebug]
  /\ UNCHANGED <<statusReport, now>>
  /\ UNCHANGED <<execVars, actionVars, cliVars, cmdVars, errVars, tree, calls,
                 initTasks, generator, createCommand>>

\* A startTimer that starts a stopped timer over.
StartTimerRestarts ==
  /\ IF statusReport.startTime # -1 /\ statusReport.endTime = -1
       THEN /\ statusReport' = statusReport
            /\ helperCall' = [op |-> "startTimer", args |-> <<>>, threw |-> TRUE,
                              error |-> "ERROR_TIMER_RUNNING", returned |-> Undefined,
                              before |-> statusReport]
       ELSE /\ statusReport' = [startTime |-> now, endTime |-> -1, runTime |-> -1]
            /\ helperCall' = [op |-> "startTimer", args |-> <<>>, threw |-> FALSE,
                              error |-> Null, returned |-> Undefined,
                              before |-> statusReport]
  /\ UNCHANGED <<falconDebug, now>>
  /\ UNCHANGED <<execVars, actionVars, cliVars, cmdVars, errVars, tree, calls,
                 initTasks, generator, createCommand>>

\* FalconStatusReport.startTimer()
StartTimer ==
  /\ IF statusReport.endTime # -1 \/ statusReport.startTime # -1
       THEN /\ statusReport' = statusReport
            /\ helperCall' = [op |-> "startTimer", args |-> <<>>, threw |-> TRUE,
                              error |-> "ERROR_TIMER_RUNNING", returned |-> Undefined,
                              before |-> statusReport]
       ELSE /\ statusReport' = [statusReport EXCEPT !.startTime = now]
            /\ helperCall' = [op |-> "startTimer", args |-> <<>>, threw |-> FALSE,
                              error |-> Null, returned |-> Undefined,
                              before |-> statusReport]
  /\ UNCHANGED <<falconDebug, now>>
  /\ UNCHANGED <<execVars, actionVars, cliVars, cmdVars, errVars, tree, calls,
                 initTasks, generator, createCommand>>

\* FalconStatusReport.stopTimer()
StopTimer ==
  /\ IF statusReport.startTime = -1
       THEN /\ statusReport' = statusReport
            /\ helperCall' = [op |-> "stopTimer", args |-> <<>>, threw |-> TRUE,
                              error |-> "ERROR_TIMER_NEVER_STARTED",
                              returned |-> Undefined, before |-> statusReport]
     ELSE IF statusReport.endTime # -1
       THEN /\ statusReport' = statusReport
            /\ helperCall' = [op |-> "stopTimer", args |-> <<>>, threw |-> TRUE,
                              error |-> "ERROR_TIMER_STOPPED",
                              returned |-> Undefined, before |-> statusReport]
     ELSE /\ statusReport' = [statusReport EXCEPT !.endTime = now,
                                                  !.runTime = now - statusReport.startTime]
          /\ helperCall' = [op |-> "stopTimer", args |-> <<>>, threw |-> FALSE,
                            error |-> Null,
                            returned |-> Num(now - statusReport.startTime),
                            before |-> statusReport]
  /\ UNCHANGED <<falconDebug, now>>
  /\ UNCHANGED <<execVars, actionVars, cliVars, cmdVars, errVars, tree, calls,
                 initTasks, generator, createCommand>>

\* FalconStatusReport.getRunTime(returnString)
GetRunTime ==
  LET \* `${ms/1000}` for a whole number of milliseconds
      Seconds(ms) ==
        LET whole == <<ToString(ms \div 1000)>>
            part == ms % 1000
        IN IF part = 0 THEN whole
           ELSE IF part % 100 = 0 THEN whole \o <<".", ToString(part \div 100)>>
           ELSE IF part % 10 = 0
             THEN whole \o <<".">> \o (IF part < 100 THEN <<"0">> ELSE <<>>)
                        \o <<ToString(part \div 10)>>
           ELSE whole \o <<".">>
                  \o (IF part < 10 THEN <<"0", "0">>
                      ELSE IF part < 100 THEN <<"0">> ELSE <<>>)
                  \o <<ToString(part)>>
  IN
  /\ \E returnString \in BOOLEAN :
       IF statusReport.startTime = -1
         THEN helperCall' = [op |-> "getRunTime", args |-> <<returnString>>,
                             threw |-> TRUE, error |-> "ERROR_TIMER_NEVER_STARTED",
                             returned |-> Undefined, before |-> statusReport]
         ELSE LET returnRuntime == IF statusReport.runTime = -1
                                     THEN now - statusReport.startTime
                                     ELSE statusReport.runTime
              IN helperCall' = [op |-> "getRunTime", args |-> <<returnString>>,
                                threw |-> FALSE, error |-> Null,
                                returned |-> IF returnString = TRUE
                                               THEN Str(Seconds(returnRuntime))
                                               ELSE Num(returnRuntime),
                                before |-> statusReport]
  /\ UNCHANGED <<falconDebug, statusReport, now>>
  /\ UNCHANGED <<execVars, actionVars, cliVars, cmdVars, errVars, tree, calls,
                 initTasks, generator, createCommand>>

\* The static fields of FalconDebug as the class declares them, a
\* FalconStatusReport as new FalconStatusReport(startTimer) leaves it, and a
\* clock: new Date().getTime() is taken never to go backwards.
HelperInit ==
  /\ ExecInit /\ CliIdle /\ CmdIdle /\ ErrIdle /\ TreeIdle /\ PairIdle /\ GeneratorIdle
  /\ falconDebug = [debugEnabled |-> FALSE, debugAsyncEnabled |-> FALSE,
                    debugExtendedEnabled |-> FALSE, debugInitialized |-> FALSE]
  /\ now = 1
  /\ \E startTimer \in BOOLEAN :
       statusReport = [startTime |-> IF startTimer THEN now ELSE -1,
                       endTime |-> -1, runTime |-> -1]
  /\ helperCall = NoCall

SpecHelper ==
  /\ HelperInit
  /\ [][\/ ClockTick
        \/ SetDebugEnablement
        \/ StartTimer
        \/ StopTimer
        \/ GetRunTime]_vars

(***************************************************************************)
(* CreateAppxPackageProject and FalconAdkCreate                             *)
(***************************************************************************)

\* An _executeInitializationTasks that does not wait for the Git tasks.
ExecuteInitializationTasksTogether ==
  /\ initTasks.promise = "none"
  /\ initTasks' = [git |-> "running", sfdx |-> "running", promise |-> "pending",
                   reason |-> Null]
  /\ UNCHANGED <<generator, createCommand>>
  /\ UNCHANGED <<execVars, actionVars, cliVars, cmdVars, errVars, tree, calls,
                 falconDebug, statusReport, now, helperCall>>

\* _executeInitializationTasks up to its first await: both task groups are
\* defined and gitInitTasks.run() is called.
ExecuteInitializationTasks ==
  /\ initTasks.promise = "none"
  /\ initTasks' = [git |-> "running", sfdx |-> "defined", promise |-> "pending",
                   reason |-> Null]
  /\ UNCHANGED <<generator, createCommand>>
  /\ UNCHANGED <<execVars, actionVars, cliVars, cmdVars, errVars, tree, calls,
                 falconDebug, statusReport, now, helperCall>>

\* gitInitTasks.run() settles: resolved, the function goes on to call
\* sfdxInitTasks.run(); rejected, the await throws out of the function.
GitInitSettle ==
  /\ initTasks.git = "running"
  /\ \/ initTasks' = [initTasks EXCEPT !.git = "resolved",
                        !.sfdx = IF @ = "defined" THEN "running" ELSE @]
     \/ \E e \in {"git init failed", "git remote unreachable"} :
          initTasks' = [initTasks EXCEPT !.git = "rejected", !.promise = "rejected",
                                         !.reason = Str(<<e>>)]
  /\ UNCHANGED <<generator, createCommand>>
  /\ UNCHANGED <<execVars, actionVars, cliVars, cmdVars, errVars, tree, calls,
                 falconDebug, statusReport, now, helperCall>>

\* sfdxInitTasks.run() settles and the function ends with it.
SfdxInitSettle ==
  /\ initTasks.sfdx = "running"
  /\ \/ initTasks' = [initTasks EXCEPT !.sfdx = "resolved",
                        !.promise = IF @ = "pending" THEN "resolved" ELSE @]
     \/ initTasks' = [initTasks EXCEPT !.sfdx = "rejected",
                        !.promise = IF @ = "pending" THEN "rejected" ELSE @,
                        !.reason = IF initTasks.promise = "pending"
                                     THEN Str(<<"sfdx init failed">>) ELSE @]
  /\ UNCHANGED <<generator, createCommand>>
  /\ UNCHANGED <<execVars, actionVars, cliVars, cmdVars, errVars, tree, calls,
                 falconDebug, statusReport, now, helperCall>>

\* this.prompt(questions): one more question group is put to the user and the
\* method waits at `pc` for the answers.
Prompt(g, pc) == [g EXCEPT !.pc = pc, !.asked = @ + 1]

\* The head of the interview loop of prompting(): the confirmation answers
\* are reset and GROUP ZERO is asked.
Interview(g) ==
  Prompt([g EXCEPT !.confirmationAnswers =
                      [proceed |-> FALSE, restart |-> TRUE, abort |-> FALSE]],
         "groupZero")

\* The end of prompting(): generatorStatus.abort() unless the user chose to
\* proceed.
Prompted(g) ==
  [g EXCEPT !.pc = "prompted",
            !.aborted = IF g.confirmationAnswers.proceed # TRUE THEN TRUE ELSE @]

\* prompting() up to its first await.
Prompting ==
  /\ generator.pc = "initializing"
  /\ generator' = IF generator.aborted THEN [generator EXCEPT !.pc = "prompted"]
                  ELSE Interview(generator)
  /\ UNCHANGED <<initTasks, createCommand>>
  /\ UNCHANGED <<execVars, actionVars, cliVars, cmdVars, errVars, tree, calls,
                 falconDebug, statusReport, now, helperCall>>

\* The GROUP ZERO answers arrive.
GroupZeroAnswers ==
  /\ generator.pc = "groupZero"
  /\ generator.asked <= MaxQuestions
  /\ \E devHubAlias \in {"NOT_SPECIFIED", "MyDevHub"} :
       LET g == [generator EXCEPT !.userAnswers.devHubAlias = devHubAlias]
       IN generator' =
            IF g.userAnswers.devHubAlias # "NOT_SPECIFIED"
              THEN Prompt([g EXCEPT !.confirmationAnswers.restart = FALSE,
                                    !.confirmationAnswers.proceed = TRUE],
                          "groupOne")
              ELSE Prompt(g, "confirmNoDevHub")
  /\ UNCHANGED <<initTasks, createCommand>>
  /\ UNCHANGED <<execVars, actionVars, cliVars, cmdVars, errVars, tree, calls,
                 falconDebug, statusReport, now, helperCall>>

\* The answer to "continue without a DevHub?" arrives and replaces
\* confirmationAnswers.
ConfirmNoDevHubAnswers ==
  /\ generator.pc = "confirmNoDevHub"
  /\ generator.asked <= MaxQuestions
  /\ \E restart \in BOOLEAN :
       LET g == [generator EXCEPT !.confirmationAnswers =
                                     [restart |-> restart, proceed |-> restart]]
       IN generator' = IF g.confirmationAnswers.restart = TRUE
                         THEN Prompt(g, "groupZero")
                         ELSE Prompted(g)
  /\ UNCHANGED <<initTasks, createCommand>>
  /\ UNCHANGED <<execVars, actionVars, cliVars, cmdVars, errVars, tree, calls,
                 falconDebug, statusReport, now, helperCall>>

\* The GROUP ONE answers arrive.
GroupOneAnswers ==
  /\ generator.pc = "groupOne"
  /\ generator.asked <= MaxQuestions
  /\ \E hasGitRemoteRepository \in BOOLEAN, isGitRemoteReachable \in BOOLEAN,
        ackGitRemoteUnreachable \in BOOLEAN :
       LET g == [generator EXCEPT
                   !.userAnswers.hasGitRemoteRepository = hasGitRemoteRepository,
                   !.userAnswers.isGitRemoteReachable = isGitRemoteReachable,
                   !.userAnswers.ackGitRemoteUnreachable = ackGitRemoteUnreachable]
       IN generator' =
            IF g.userAnswers.hasGitRemoteRepository
              THEN IF \/ g.userAnswers.isGitRemoteReachable
                      \/ g.userAnswers.ackGitRemoteUnreachable = TRUE
                     THEN Prompt([g EXCEPT !.confirmationAnswers.restart = FALSE],
                                 "groupTwo")
                     ELSE Prompt([g EXCEPT !.confirmationAnswers.restart = TRUE],
                                 "groupOne")
              ELSE Prompt([g EXCEPT !.confirmationAnswers.restart = TRUE],
                          "confirmNoGitHubRepo")
  /\ UNCHANGED <<initTasks, createCommand>>
  /\ UNCHANGED <<execVars, actionVars, cliVars, cmdVars, errVars, tree, calls,
                 falconDebug, statusReport, now, helperCall>>

\* The answer to "continue without a GitHub repository?" arrives, replaces
\* confirmationAnswers, and its restart is negated.
ConfirmNoGitHubRepoAnswers ==
  /\ generator.pc = "confirmNoGitHubRepo"
  /\ generator.asked <= MaxQuestions
  /\ \E restart \in BOOLEAN :
       LET g == [generator EXCEPT !.confirmationAnswers = [restart |-> ~restart]]
       IN generator' = IF g.confirmationAnswers.restart = TRUE
                         THEN Prompt(g, "groupOne")
                         ELSE Prompt(g, "groupTwo")
  /\ UNCHANGED <<initTasks, createCommand>>
  /\ UNCHANGED <<execVars, actionVars, cliVars, cmdVars, errVars, tree, calls,
                 falconDebug, statusReport, now, helperCall>>

\* The GROUP TWO answers arrive.
GroupTwoAnswers ==
  /\ generator.pc = "groupTwo"
  /\ generator.asked <= MaxQuestions
  /\ \E isCreatingManagedPackage \in BOOLEAN :
       generator' = Prompt([generator EXCEPT !.userAnswers.isCreatingManagedPackage =
                                               isCreatingManagedPackage],
                           "groupThree")
  /\ UNCHANGED <<initTasks, createCommand>>
  /\ UNCHANGED <<execVars, actionVars, cliVars, cmdVars, errVars, tree, calls,
                 falconDebug, statusReport, now, helperCall>>

\* The GROUP THREE answers arrive; the answers are displayed and
\* _promptProceedAbortRestart() asks for the final confirmation.
GroupThreeAnswers ==
  /\ generator.pc = "groupThree"
  /\ generator.asked <= MaxQuestions
  /\ generator' = Prompt(generator, "proceedAbortRestart")
  /\ UNCHANGED <<initTasks, createCommand>>
  /\ UNCHANGED <<execVars, actionVars, cliVars, cmdVars, errVars, tree, calls,
                 falconDebug, statusReport, now, helperCall>>

\* _promptProceedAbortRestart() stores the user's choice in
\* confirmationAnswers and returns its restart; true goes round the interview
\* loop again, anything else ends prompting().
ProceedAbortRestartAnswers ==
  /\ generator.pc = "proceedAbortRestart"
  /\ generator.asked <= MaxQuestions
  /\ \E choice \in {"proceed", "abort", "restart"} :
       LET g == [generator EXCEPT !.confirmationAnswers =
                   [proceed |-> choice = "proceed", restart |-> choice = "restart",
                    abort |-> choice = "abort"]]
       IN generator' = IF g.confirmationAnswers.restart = TRUE
                         THEN Interview(g)
                         ELSE Prompted(g)
  /\ UNCHANGED <<initTasks, createCommand>>
  /\ UNCHANGED <<execVars, actionVars, cliVars, cmdVars, errVars, tree, calls,
                 falconDebug, statusReport, now, helperCall>>

\* A writing() without the test of generatorStatus.aborted.
WritingAnyway ==
  /\ generator.pc = "prompted"
  /\ LET userAnswers ==
           [generator.userAnswers EXCEPT
              !.projectType = IF generator.userAnswers.isCreatingManagedPackage = TRUE
                                THEN Str(<<"appx:managed1gp">>)
                                ELSE Str(<<"appx:unmanaged">>)]
     IN generator' = [generator EXCEPT !.pc = "written",
                                       !.userAnswers = userAnswers,
                                       !.finalAnswers = userAnswers,
                                       !.copied = TRUE]
  /\ UNCHANGED <<initTasks, createCommand>>
  /\ UNCHANGED <<execVars, actionVars, cliVars, cmdVars, errVars, tree, calls,
                 falconDebug, statusReport, now, helperCall>>

\* writing()
Writing ==
  /\ generator.pc = "prompted"
  /\ LET userAnswers ==
           [generator.userAnswers EXCEPT
              !.projectType = IF generator.userAnswers.isCreatingManagedPackage = TRUE
                                THEN Str(<<"appx:managed1gp">>)
                                ELSE Str(<<"appx:unmanaged">>)]
     IN generator' = IF generator.aborted
                       THEN [generator EXCEPT !.pc = "written"]
                       ELSE [generator EXCEPT !.pc = "written",
                                              !.userAnswers = userAnswers,
                                              !.finalAnswers = userAnswers,
                                              !.copied = TRUE]
  /\ UNCHANGED <<initTasks, createCommand>>
  /\ UNCHANGED <<execVars, actionVars, cliVars, cmdVars, errVars, tree, calls,
                 falconDebug, statusReport, now, helperCall>>

\* FalconAdkCreate.run() up to its await: the command is initialized and
\* runYeomanGenerator() is called.
Run ==
  /\ createCommand.pc = "none"
  /\ createCommand' = [createCommand EXCEPT !.pc = "generator"]
  /\ UNCHANGED <<initTasks, generator>>
  /\ UNCHANGED <<execVars, actionVars, cliVars, cmdVars, errVars, tree, calls,
                 falconDebug, statusReport, now, helperCall>>

\* The promise of runYeomanGenerator() settles: .then() calls onSuccess on a
\* resolution, and a rejection passes on to .catch(), which calls onError.
GeneratorSettle ==
  /\ createCommand.pc = "generator"
  /\ \E generatorResult \in {"resolved", "rejected"} :
       createCommand' =
         [createCommand EXCEPT
            !.generatorResult = generatorResult,
            !.pc = IF generatorResult = "resolved" THEN "onSuccess" ELSE "onError",
            !.handlers = Append(@, IF generatorResult = "resolved"
                                     THEN "onSuccess" ELSE "onError")]
  /\ UNCHANGED <<initTasks, generator>>
  /\ UNCHANGED <<execVars, actionVars, cliVars, cmdVars, errVars, tree, calls,
                 falconDebug, statusReport, now, helperCall>>

\* onSuccess ends.  When it returns, the chain is resolved and run() returns
\* falconJsonResponse; when it throws, the promise of .then() is rejected and
\* .catch() calls onError.
OnSuccessSettle ==
  /\ createCommand.pc = "onSuccess"
  /\ \/ createCommand' = [createCommand EXCEPT
                            !.pc = "returned",
                            !.completed = Append(@, "onSuccess"),
                            !.returned = Str(<<"falconJsonResponse">>)]
     \/ createCommand' = [createCommand EXCEPT
                            !.pc = "onError",
                            !.handlers = Append(@, "onError")]
  /\ UNCHANGED <<initTasks, generator>>
  /\ UNCHANGED <<execVars, actionVars, cliVars, cmdVars, errVars, tree, calls,
                 falconDebug, statusReport, now, helperCall>>

\* onError ends.  When it returns, run() returns falconJsonResponse; when it
\* throws, the awaited chain is rejected and run() rejects.
OnErrorSettle ==
  /\ createCommand.pc = "onError"
  /\ \/ createCommand' = [createCommand EXCEPT
                            !.pc = "returned",
                            !.completed = Append(@, "onError"),
                            !.returned = Str(<<"falconJsonResponse">>)]
     \/ createCommand' = [createCommand EXCEPT !.pc = "rejected"]
  /\ UNCHANGED <<initTasks, generator>>
  /\ UNCHANGED <<execVars, actionVars, cliVars, cmdVars, errVars, tree, calls,
                 falconDebug, statusReport, now, helperCall>>

\* Nothing of the generator or of the command has run.  confirmationAnswers
\* and generatorStatus are as the base class constructs them, or as
\* initializing() leaves them when it aborts.
GeneratorInit ==
  /\ ExecInit /\ CliIdle /\ CmdIdle /\ ErrIdle /\ TreeIdle /\ PairIdle /\ HelperIdle
  /\ initTasks = [git |-> "none", sfdx |-> "none", promise |-> "none", reason |-> Null]
  /\ \E aborted \in BOOLEAN :
       generator = [pc |-> "initializing", aborted |-> aborted, asked |-> 0,
                    confirmationAnswers |-> [proceed |-> FALSE, restart |-> TRUE,
                                             abort |-> FALSE],
                    userAnswers |-> [devHubAlias |-> "NOT_SPECIFIED",
                                     hasGitRemoteRepository |-> FALSE,
                                     isGitRemoteReachable |-> FALSE,
                                     ackGitRemoteUnreachable |-> FALSE,
                                     isCreatingManagedPackage |-> FALSE,
                                     projectType |-> Undefined],
                    finalAnswers |-> Null, copied |-> FALSE]
  /\ createCommand = [pc |-> "none", generatorResult |-> "pending", handlers |-> <<>>,
                      completed |-> <<>>, returned |-> Undefined]

SpecGenerator ==
  /\ GeneratorInit
  /\ [][\/ ExecuteInitializationTasks
        \/ GitInitSettle
        \/ SfdxInitSettle
        \/ Prompting
        \/ GroupZeroAnswers
        \/ ConfirmNoDevHubAnswers
        \/ GroupOneAnswers
        \/ ConfirmNoGitHubRepoAnswers
        \/ GroupTwoAnswers
        \/ GroupThreeAnswers
        \/ ProceedAbortRestartAnswers
        \/ Writing
        \/ Run
        \/ GeneratorSettle
        \/ OnSuccessSettle
        \/ OnErrorSettle]_vars

(***************************************************************************)
(* The claims                                                               *)
(***************************************************************************)
\* What the child process wrote, as one text per stream.
Emitted == [out |-> Flatten(childProcess.out), err |-> Flatten(childProcess.err)]
Closed == childProcess.state = "closed"
ExitedZero == childProcess.code = Num(0)

\* C1: after the close event exactly one of three outcomes holds: code 0 ->
\* resolved and SUCCESS; another code (or none) with stdout recognized as a
\* CLI error -> resolved and FAILURE with an SfdxCliError built from stdout;
\* otherwise -> rejected and ERROR with a ShellError.
C1_ThreeWayOutcome ==
  Closed =>
    /\ promise.value = "executorResult"
    /\ IF ExitedZero
         THEN /\ promise.state = "resolved"
              /\ executorResult.status = "SUCCESS"
              /\ executorResult.errObj = Null
       ELSE IF detectSalesforceCliError(Emitted.out)
         THEN /\ promise.state = "resolved"
              /\ executorResult.status = "FAILURE"
              /\ executorResult.errObj.name = "SfdxCliError"
              /\ executorResult.errObj.cliError = CliErrorDetail(Emitted.out).cliError
       ELSE /\ promise.state = "rejected"
            /\ executorResult.status = "ERROR"
            /\ executorResult.errObj.name = "ShellError"

C1_Witness ==
  /\ Closed
  /\ ~ExitedZero
  /\ promise.state = "resolved"
  /\ executorResult.status = "FAILURE"
  /\ executorResult.errObj.cliError.name = Str(<<"ScratchOrgNotFound">>)

\* C2: while the child process runs the promise is pending and the Result has
\* no terminal status; a pending promise is settled by the close step alone;
\* and a settled promise never changes.
C2_SettlesOnceAtClose ==
  /\ [](childProcess.state = "running" =>
          promise = Pending /\ executorResult.status \notin Terminal)
  /\ [][promise.state = "pending" /\ promise' # promise =>
          childProcess.state = "running" /\ childProcess'.state = "closed"]_vars
  /\ [][promise.state \in Settled => promise' = promise]_vars

C2_Witness ==
  /\ childProcess.state = "running"
  /\ Len(childProcess.out) >= 1
  /\ Len(childProcess.err) >= 1
  /\ \E i \in 1..Len(observer) : observer[i] = "progress"
  /\ JSONparse(stdOutBuffer).ok
  /\ promise = Pending

\* C3: an exit with code 0 resolves with SUCCESS whatever stdout holds;
\* stdOutParsed is the parsed value when stdout parses (result.id is "abc" for
\* {"status":0,"result":{"id":"abc"}}) and the raw text when it does not.
C3_ExitZeroIsSuccess ==
  Closed /\ ExitedZero =>
    /\ promise = [state |-> "resolved", value |-> "executorResult"]
    /\ executorResult.status = "SUCCESS"
    /\ IF JSONparse(Emitted.out).ok
         THEN executorResultDetail.stdOutParsed = JSONparse(Emitted.out).value
         ELSE executorResultDetail.stdOutParsed = Str(Emitted.out)
    /\ Emitted.out = <<"{", "\"status\":0", ",", "\"result\":{\"id\":\"abc\"}", "}">> =>
         Get(Get(executorResultDetail.stdOutParsed, "result"), "id") = Str(<<"abc">>)

C3_Witness ==
  /\ Closed
  /\ ExitedZero
  /\ ~JSONparse(Emitted.out).ok
  /\ Emitted.out # <<>>
  /\ executorResult.status = "SUCCESS"
  /\ executorResultDetail.stdOutParsed = Str(Emitted.out)

\* C4: a child killed by a signal (no exit code) whose stdout is not a
\* recognized CLI error rejects with ERROR and a ShellError that holds the
\* signal, the (null) code, both buffers and the command as observed.
C4_SignalShellError ==
  Closed /\ childProcess.code = Null /\ ~detectSalesforceCliError(Emitted.out) =>
    /\ promise = [state |-> "rejected", value |-> "executorResult"]
    /\ executorResult.status = "ERROR"
    /\ executorResult.errObj.name = "ShellError"
    /\ executorResult.errObj.shellError.signal = childProcess.signal
    /\ executorResult.errObj.shellError.code = Null
    /\ executorResult.errObj.shellError.stdout = Emitted.out
    /\ executorResult.errObj.shellError.stderr = Emitted.err
    /\ executorResult.errObj.shellError.command = executorResultDetail.sfdxCommandString.s
    /\ executorResult.errObj.shellError.command = parseSfdxCommand(sfdxCommandDef).value

C4_Witness ==
  /\ Closed
  /\ childProcess.signal = Str(<<"SIGKILL">>)
  /\ Emitted.out = <<>>
  /\ Emitted.err # <<>>
  /\ promise.state = "rejected"
  /\ executorResult.errObj.shellError.signal = Str(<<"SIGKILL">>)

\* C5: constructing an SfdxCliError never throws and fills every field of
\* cliError.  For a buffer that parses as a JSON object: name is the parsed
\* name, or 'UnknownCliError' when there is none; status is the parsed status,
\* or 1 when that is not a number; actions is the parsed 'actions' array
\* followed by the singular 'action' if present.  For a buffer that does not
\* parse: name is 'UnparseableCliError', status is 999 and result.rawResult is
\* the raw buffer.
C5_CliErrorPopulated ==
  LET \* The fields a CliErrorDetail holds.
      CliErrorFields == {"name", "message", "status", "actions", "warnings", "stack", "result"}
  IN
  cliOut # Null =>
    LET parsed == JSONparse(cliIn)
        c == cliOut.cliError
        o == parsed.value.o
        has(k) == k \in DOMAIN o
        listed == IF has("actions") /\ o["actions"].t = "array" THEN o["actions"].a ELSE <<>>
    IN /\ ~cliOut.threw
       /\ DOMAIN c = CliErrorFields
       /\ \A f \in CliErrorFields : c[f] \notin {Undefined, Null}
       /\ IF parsed.ok /\ parsed.value.t = "object"
            THEN /\ c.name = IF has("name") /\ o["name"] # Str(<<>>)
                               THEN o["name"] ELSE Str(<<"UnknownCliError">>)
                 /\ c.status = IF has("status") /\ o["status"].t = "number"
                                 THEN o["status"] ELSE Num(1)
                 /\ c.actions = Arr(IF has("action") THEN Append(listed, o["action"])
                                    ELSE listed)
                 /\ cliIn = <<"{", "\"status\":1", ",", "\"name\":\"ScratchOrgNotFound\"", "}">>
                      => c.name = Str(<<"ScratchOrgNotFound">>)
          ELSE IF ~parsed.ok
            THEN /\ c.name = Str(<<"UnparseableCliError">>)
                 /\ c.status = Num(999)
                 /\ c.result = Obj([rawResult |-> Str(cliIn)])
          ELSE TRUE

\* C6: once the child process has closed, the stored stdOutBuffer and
\* stdErrBuffer are the concatenation, in arrival order, of the chunks of
\* their own stream, and the outcome is the classification of exactly these
\* texts; before the close both stored buffers are null and the Result has no
\* terminal status.
C6_BuffersAccumulated ==
  /\ Closed =>
       /\ executorResultDetail.stdOutBuffer = Str(Emitted.out)
       /\ executorResultDetail.stdErrBuffer = Str(Emitted.err)
       /\ LET o == CloseOutcome(childProcess.code, childProcess.signal,
                                Emitted.out, Emitted.err,
                                executorResultDetail.sfdxCommandString.s, sfdxCommandDef)
          IN /\ executorResult.status = o.status
             /\ executorResult.errObj = o.errObj
             /\ executorResultDetail.stdOutParsed = o.stdOutParsed
  /\ ~Closed =>
       /\ executorResultDetail.stdOutBuffer = Null
       /\ executorResultDetail.stdErrBuffer = Null
       /\ executorResult = Null \/ executorResult.status \notin Terminal

C6_Witness ==
  /\ Closed
  /\ Len(childProcess.out) = 2
  /\ childProcess.out[1] # childProcess.out[2]
  /\ Len(childProcess.err) >= 1
  /\ executorResult.status = "FAILURE"
  /\ executorResultDetail.stdOutBuffer = Str(childProcess.out[1] \o childProcess.out[2])

\* C7: a call of executeSfdxCommand throws nothing at its caller and hands
\* back a promise, whatever the command definition; a definition whose
\* commandArgs or commandFlags is missing, and a launch that fails, show as a
\* rejection of that promise, with no child process left running.
C7_NeverThrowsSynchronously ==
  /\ thrown = FALSE
  /\ sfdxCommandDef # Null =>
       /\ promise.state # "none"
       /\ Undefined \in {sfdxCommandDef.commandArgs, sfdxCommandDef.commandFlags} =>
            promise.state = "rejected" /\ childProcess.state = "none"
       /\ childProcess.state = "none" => promise.state = "rejected"

C7_Witness ==
  /\ sfdxCommandDef # Null
  /\ sfdxCommandDef.commandFlags = Undefined
  /\ thrown = FALSE
  /\ promise.state = "rejected"
  /\ childProcess.state = "none"

\* C8: a terminal status of a Result never changes; a call that asks a
\* finalized Result for a different terminal status is turned down and leaves
\* the status as it was; and one call of the executor sets a status once, at
\* the close of the child process, never before.
C8_StatusMonotonic ==
  /\ [][executorResult # Null /\ executorResult.status \in Terminal =>
          executorResult'.status = executorResult.status]_vars
  /\ [][actionResult # Null /\ actionResult.status \in Terminal =>
          actionResult'.status = actionResult.status]_vars
  /\ [][(/\ executorResult # Null
         /\ executorResult.status \in Terminal
         /\ executorResult'.sets = executorResult.sets + 1
         /\ executorResult'.asked # executorResult.status) =>
          /\ executorResult'.refused = executorResult.refused + 1
          /\ executorResult'.status = executorResult.status
          /\ executorResult'.errObj = executorResult.errObj]_vars
  /\ [][childProcess.state = "running" /\ childProcess'.state = "closed" =>
          /\ executorResult.sets = 0
          /\ executorResult'.sets = 1
          /\ executorResult'.refused = 0
          /\ executorResult'.status \in Terminal]_vars
  /\ [](executorResult # Null /\ ~Closed => executorResult.sets = 0)

C8_Witness ==
  /\ executorResult # Null
  /\ executorResult.status = "FAILURE"
  /\ executorResult.asked = "SUCCESS"
  /\ executorResult.refused = 1
  /\ executorResult.sets = 2

\* C9: folding a child into a parent records the child in the parent's
\* children; the parent's status changes with it only for an ERROR child of a
\* parent with bubbleError or a FAILURE child of a parent with bubbleFailure.
C9_BubbleNeedsPolicy ==
  tree # Null /\ tree.last.op \in {"addResolvedChild", "addRejectedChild"} =>
    /\ Len(tree.parent.children) >= 1
    /\ tree.parent.children[Len(tree.parent.children)].status = tree.last.child
    /\ tree.parent.status # tree.last.before =>
         \/ tree.last.child = "ERROR" /\ tree.parent.bubbleError
         \/ tree.last.child = "FAILURE" /\ tree.parent.bubbleFailure

C9_Witness ==
  /\ tree # Null
  /\ tree.last.op = "addResolvedChild"
  /\ tree.last.child = "FAILURE"
  /\ ~tree.parent.bubbleFailure
  /\ tree.parent.bubbleError
  /\ tree.last.before = "RUNNING"
  /\ tree.parent.status = "RUNNING"
  /\ Len(tree.parent.children) = 2
  /\ tree.parent.children[2].status = "FAILURE"

C11_DeleteSuppressesFailure ==
  (/\ action.name = "delete-scratch-org"
   /\ actionPromise.state \in Settled
   /\ promise.state = "resolved"
   /\ executorResult.status = "FAILURE") =>
    /\ actionPromise.state = "resolved"
    /\ actionResponse.execFailure = <<>>
    /\ actionResponse.execSuccess =
         <<[name |-> "sfdx:executeSfdxCommand", status |-> "FAILURE"]>>
    /\ action.state \in {"EXECUTING", "SUCCEEDED"}

C11_Witness ==
  /\ action.name = "delete-scratch-org"
  /\ action.state = "SUCCEEDED"
  /\ actionPromise.state = "resolved"
  /\ executorResult.status = "FAILURE"
  /\ executorResult.errObj.cliError.name = Str(<<"ScratchOrgNotFound">>)
  /\ Len(actionResponse.execSuccess) = 1

\* The option the action requires is not among its options.
OptionMissing ==
  /\ action.options # Undefined
  /\ \/ action.name = "execute-apex" /\ Get(action.options, "apexCodeFile") = Undefined
     \/ action.name = "delete-scratch-org"
          /\ Get(action.options, "scratchOrgAlias") = Undefined

\* C12: an action instance only moves INITIALIZED -> VALIDATING -> EXECUTING
\* -> SUCCEEDED, FAILED or ERRORED; executeAction (and with it the executor
\* call) starts only in EXECUTING, after the options were found valid; and an
\* action whose required option is missing ends ERRORED with the
\* configuration error, with no executor call and no child process.
C12_ValidatedBeforeExecuted ==
  /\ [][LET \* The steps an action instance can take.
            ActionSteps ==
              {<<"none", "INITIALIZED">>, <<"INITIALIZED", "VALIDATING">>,
               <<"VALIDATING", "EXECUTING">>, <<"VALIDATING", "ERRORED">>,
               <<"EXECUTING", "SUCCEEDED">>, <<"EXECUTING", "FAILED">>,
               <<"EXECUTING", "ERRORED">>}
        IN action'.state # action.state /\ action'.state # "none" =>
             <<action.state, action'.state>> \in ActionSteps]_vars
  /\ [][action.state # "none" /\ action'.state # "none" =>
          action'.name = action.name]_vars
  /\ [](actionPromise.state = "pending" \/ sfdxCommandDef # Null =>
          action.state \in {"EXECUTING"} \cup Finished /\ ~OptionMissing)
  /\ [](OptionMissing =>
          /\ action.state \in {"VALIDATING", "ERRORED"}
          /\ sfdxCommandDef = Null
          /\ promise = NoPromise
          /\ childProcess = NoChild
          /\ action.state = "ERRORED" =>
               actionPromise = [state |-> "rejected", value |-> "ERROR_MISSING_OPTION"])
  /\ [][OptionMissing => shell' = shell]_vars

C12_Witness ==
  /\ OptionMissing
  /\ action.name = "delete-scratch-org"
  /\ action.state = "ERRORED"
  /\ actionPromise.value = "ERROR_MISSING_OPTION"
  /\ actionsRun = 1
  /\ shell = <<"exec", "close">>

\* How often an event is in the log of the shell.
Count(log, event) == Len(SelectSeq(log, LAMBDA e : e = event))

\* C13: an executor call launches one child process and no second one; an
\* action makes one executor call and its executeAction is not settled
\* before that call is; so over the actions of a recipe at most one child
\* process is live at any time, and a process starts only after every
\* earlier one has closed.
C13_OneProcessAtATime ==
  /\ [](\A i \in 0..Len(shell) :
          Count(SubSeq(shell, 1, i), "exec") - Count(SubSeq(shell, 1, i), "close")
            \in {0, 1})
  /\ [](Count(shell, "exec") <= actionsRun + (IF sfdxCommandDef # Null THEN 1 ELSE 0))
  /\ [](promise.state = "pending" <=> childProcess.state = "running")
  /\ [](childProcess.state = "running" <=>
          Count(shell, "exec") - Count(shell, "close") = 1)
  /\ [](actionPromise.state \in Settled /\ sfdxCommandDef # Null =>
          promise.state \in Settled /\ childProcess.state # "running")
  /\ [][sfdxCommandDef = Null /\ sfdxCommandDef' # Null =>
          /\ Count(shell, "exec") = Count(shell, "close")
          /\ actionPromise.state = "none" /\ actionPromise'.state = "pending"
          /\ Len(shell') <= Len(shell) + 1]_vars
  /\ [][sfdxCommandDef # Null /\ sfdxCommandDef' # Null =>
          Count(shell', "exec") = Count(shell, "exec")]_vars

C13_Witness ==
  /\ actionsRun = 1
  /\ shell = <<"exec", "close", "exec">>
  /\ action.name = "execute-apex"
  /\ childProcess.state = "running"
  /\ actionPromise.state = "pending"

\* C14: once the child process of a call has closed, the observer was told
\* of the start first and once, of progress ticks after that, and last and
\* once of the completion, whatever the outcome: SUCCESS, FAILURE or ERROR.
C14_ObserverToldOfCompletion ==
  Closed =>
    /\ Len(observer) >= 2
    /\ observer[1] = "start"
    /\ observer[Len(observer)] \notin {"start", "progress"}
    /\ \A i \in 2..(Len(observer) - 1) : observer[i] = "progress"

\* C15: the close of the child process stops the progress notifications of
\* the call, whatever the outcome, and no outcome is registered while they
\* run; once the promise has settled the timer is not running and no further
\* progress tick reaches the observer.
C15_TimerStoppedAtClose ==
  /\ [](Closed => progressNotifications = "finished")
  /\ [](progressNotifications = "running" =>
          /\ childProcess.state = "running"
          /\ executorResult.status \notin Terminal
          /\ executorResultDetail.stdOutBuffer = Null)
  /\ [](promise.state \in Settled => progressNotifications # "running")
  /\ [][promise.state \in Settled =>
          Count(observer', "progress") = Count(observer, "progress")]_vars
  /\ [][progressNotifications = "finished" => progressNotifications' = "finished"]_vars

C15_Witness ==
  /\ Closed
  /\ executorResult.status = "ERROR"
  /\ promise.state = "rejected"
  /\ Count(observer, "progress") = MaxTicks
  /\ progressNotifications = "finished"

\* The two variables of the environment that the executor sets.
EnvSet ==
  /\ env.SFDX_JSON_TO_STDOUT = Str(<<"true">>)
  /\ env.SFDX_AUTOUPDATE_DISABLE = Str(<<"true">>)

C17_NoDeadline ==
  /\ [](childProcess.state = "running" =>
          promise.state = "pending" /\ executorResult.status \notin Terminal)
  /\ [][childProcess.state = "running" /\ childProcess'.state = "running" =>
          promise' = promise /\ executorResult'.status = executorResult.status]_vars
  /\ (childProcess.state = "running") ~> (promise.state \in Settled)

C17_Witness ==
  /\ childProcess.state = "running"
  /\ Count(observer, "progress") = MaxTicks
  /\ Len(childProcess.out) = MaxOutChunks
  /\ Len(childProcess.err) = MaxErrChunks
  /\ promise = Pending
  /\ executorResult.status = "INITIALIZED"

\* A text made only of the characters [A-Za-z0-9_/:=-].
Safe(text) == \A i \in 1..Len(text) : text[i] \in ArgumentChars

C19_ShellReadsOneWord ==
  argOut # Null =>
    ShellWords(argOut.s) = [ok |-> TRUE, words |-> <<trim(argIn.s)>>]

\* C19, amended: a POSIX shell reads what sanitizeArgument returns as one
\* word equal to the trimmed argument when the trimmed argument is not
\* empty, and as no word at all when it is empty.
C19_ShellReadsTrimmedArgument ==
  argOut # Null =>
    ShellWords(argOut.s) =
      [ok |-> TRUE,
       words |-> IF trim(argIn.s) = <<>> THEN <<>> ELSE <<trim(argIn.s)>>]

C19_Witness ==
  /\ argIn = Str(<<"\\", "'", "'">>)
  /\ argOut = Str(<<"'", "\\", "'", "\\", "'", "\\", "'">>)
  /\ ShellWords(argOut.s).words = <<argIn.s>>

\* Whether a key of commandFlags names a flag, and the flag it names.
IsFlagKey(objectKey) ==
  toUpperCase(substr(objectKey, 0, 5)) = <<"F", "L", "A", "G", "_">>
ResolvedFlag(objectKey) ==
  LET flag == toLowerCase(Rest(objectKey, 5))
  IN sanitizeFlag((IF Len(flag) = 1 THEN <<"-">> ELSE <<"-", "-">>) \o flag)

\* C20: in the compiled command a flag whose value is the boolean true is
\* the bare flag, and a flag with any other value, the boolean false
\* included, is the flag, a space and the sanitized value.
C20_OnlyTrueIsBare ==
  cmdOut # Null =>
    LET f == cmdIn.commandFlags.f[1]
    IN IsFlagKey(f.key) =>
         cmdOut.s = <<"s", "f", "d", "x", " ">> \o cmdIn.command
                      \o <<" ">> \o ResolvedFlag(f.key)
                      \o (IF f.value = Bool(TRUE) THEN <<>>
                          ELSE <<" ">> \o sanitizeArgument(f.value))

\* The compiled command up to the flags, and the first token after it.
CommandHead == <<"s", "f", "d", "x", " ">> \o cmdIn.command
RECURSIVE FirstToken(_)
FirstToken(text) ==
  IF text = <<>> \/ Head(text) = " " THEN <<>>
  ELSE <<Head(text)>> \o FirstToken(Tail(text))
FlagToken == FirstToken(Rest(cmdOut.s, Len(CommandHead) + 1))

\* C21: a key that does not begin with FLAG_ (in any case) adds nothing to
\* the command; a key that does adds a flag whose name is the rest of the
\* key in lower case, written with one dash when the name is one character
\* and with two dashes when it is two characters or more; this for every
\* key, FLAG_ alone and keys with characters the flag sanitizer removes
\* included.
C21_FlagTokenShape ==
  cmdOut # Null =>
    LET objectKey == cmdIn.commandFlags.f[1].key
        name == toLowerCase(Rest(objectKey, 5))
    IN IF IsFlagKey(objectKey)
         THEN \/ Len(name) = 1 /\ FlagToken = <<"-">> \o name
              \/ Len(name) >= 2 /\ FlagToken = <<"-", "-">> \o name
         ELSE cmdOut.s = CommandHead

\* C23: the flag token of the compiled command is made of the characters
\* [a-z0-9-] only, whatever the key.
C23_FlagTokenCharacters ==
  cmdOut # Null /\ IsFlagKey(cmdIn.commandFlags.f[1].key) =>
    \A i \in 1..Len(FlagToken) : FlagToken[i] \in Range(LowerCase) \cup Digits \cup {"-"}

C23_Witness ==
  /\ cmdOut # Null
  /\ cmdIn.commandFlags.f[1].key = <<"F", "l", "a", "g", "_", "U", "_">>
  /\ FlagToken = <<"-", "-", "u">>

\* The words the claim has a shell find in the compiled command: for each
\* positional argument the argument, for each flag key the flag and, unless
\* the value is a boolean, the value.
RECURSIVE ArgWords(_)
ArgWords(args) ==
  IF args = <<>> THEN <<>> ELSE <<trim(String(Head(args)))>> \o ArgWords(Tail(args))
RECURSIVE FlagWords(_)
FlagWords(flags) ==
  IF flags = <<>> THEN <<>>
  ELSE (IF ~IsFlagKey(Head(flags).key) THEN <<>>
        ELSE IF Head(flags).value.t = "boolean" THEN <<ResolvedFlag(Head(flags).key)>>
        ELSE <<ResolvedFlag(Head(flags).key), trim(String(Head(flags).value))>>)
         \o FlagWords(Tail(flags))

\* C22: the compiled command is one text that a shell reads as sfdx, the
\* command, every positional argument in the order given, and then the flags
\* in the key order of commandFlags; no flag comes before an argument.
C22_ArgumentsThenFlagsInOrder ==
  cmdOut # Null =>
    /\ SubSeq(cmdOut.s, 1, Len(CommandHead)) = CommandHead
    /\ ShellWords(cmdOut.s) =
         [ok |-> TRUE,
          words |-> <<<<"s", "f", "d", "x">>, cmdIn.command>>
                      \o ArgWords(cmdIn.commandArgs.a)
                      \o FlagWords(cmdIn.commandFlags.f)]

C22_Witness ==
  /\ cmdOut # Null
  /\ cmdIn.commandArgs.a = <<Str(<<"b", " ", "c">>), Str(<<"a">>)>>
  /\ cmdIn.commandFlags.f =
       <<[key |-> FLAG_JSON, value |-> Bool(TRUE)],
         [key |-> FLAG_TARGETUSERNAME,
          value |-> Str(<<"d", "e", "v", "@", "o", "r", "g">>)]>>
  /\ ShellWords(cmdOut.s).words =
       <<<<"s", "f", "d", "x">>, CommandText, <<"b", " ", "c">>, <<"a">>,
         <<"-", "-", "j", "s", "o", "n">>,
         <<"-", "-", "t", "a", "r", "g", "e", "t", "u", "s", "e", "r", "n", "a", "m", "e">>,
         <<"d", "e", "v", "@", "o", "r", "g">>>>

\* C24: wrapping what wrap returned returns the same object and changes
\* nothing, whatever source is passed; and when the error given to wrap is
\* an SfdxFalconError already (an SfdxCliError or a ShellError included),
\* wrap returns that object and leaves every object as it was.
C24_WrapIdempotent ==
  errCall.op = "wrap" =>
    /\ \A source \in Sources :
         wrap(errors, errCall.returned, source) = [heap |-> errors, ref |-> errCall.returned]
    /\ InstanceOfSfdxFalconError(errCall.before, errCall.error) =>
         errCall.returned = errCall.error /\ errors = errCall.before

C24_Witness ==
  /\ errCall.op = "wrap"
  /\ errCall.error \in Refs(errCall.before)
  /\ errors[errCall.error.i].class = "ShellError"
  /\ Len(stackItems[errCall.error.i].added) = MaxStackItems
  /\ errCall.source = Str(<<"RECIPE:y">>)
  /\ errCall.returned = errCall.error
  /\ errors[errCall.returned.i].source = Str(<<"EXECUTOR:sfdx">>)

\* C25: for an error that is not an SfdxFalconError, wrap returns a new
\* SfdxFalconError that embeds the original, so that the original can be
\* had back from it, and whose source is the source passed to wrap; this
\* for an Error and for a value that is not an Error, the latter under the
\* name UnknownError.
C25_WrapKeepsOriginal ==
  LET \* The values a wrapper embeds: its cause, its detail and what its data
      \* holds as unknownObj.
      Embedded(w) == {w.cause, w.detail, Get(w.data, "unknownObj")}
  IN
  errCall.op = "wrap" /\ ~InstanceOfSfdxFalconError(errCall.before, errCall.error) =>
    LET w == errors[errCall.returned.i]
    IN /\ errCall.returned \notin Refs(errCall.before)
       /\ w.class = "SfdxFalconError"
       /\ errCall.error \in Embedded(w)
       /\ errCall.source # Undefined => w.source = errCall.source
       /\ ~InstanceOfError(errCall.before, errCall.error) =>
            w.name = Str(<<"UnknownError">>)

\* The causes of an object, from the object itself to the last one.
RECURSIVE CauseChain(_, _)
CauseChain(h, this) ==
  IF h[this.i].cause = Undefined THEN <<this>>
  ELSE <<this>> \o CauseChain(h, h[this.i].cause)

RECURSIVE Lines(_)
Lines(text) ==
  IF text = <<>> THEN <<>>
  ELSE IF \E i \in 1..Len(text) : text[i] = "\n"
    THEN LET nl == CHOOSE i \in 1..Len(text) :
                     text[i] = "\n" /\ \A j \in 1..(i - 1) : text[j] # "\n"
         IN <<SubSeq(text, 1, nl - 1)>> \o Lines(SubSeq(text, nl + 1, Len(text)))
    ELSE <<text>>

\* C27: after addToStack(a1), ..., addToStack(an) on an error whose result
\* stack started empty the stack has n lines, an indented first and a1
\* indented last; an error constructed with a cause starts with the result
\* stack the cause has then, and an addToStack changes the result stack of
\* no other object, the cause's included.
C27_ResultStackMostRecentFirst ==
  /\ [](\A i \in 1..Len(errors) :
          errors[i].class \in FalconClasses =>
            \* one indented line per item added, the most recent first, and
            \* then the lines the stack started with
            LET added == stackItems[i].added
                n == Len(added)
            IN Lines(errors[i].resultStack.s) =
                 [k \in 1..n |-> <<indent, added[n + 1 - k]>>]
                   \o Lines(stackItems[i].inherited.s))
  /\ [][/\ \A i \in 1..Len(errors) :
             stackItems'[i].added = stackItems[i].added =>
               errors'[i].resultStack = errors[i].resultStack
        /\ \A i \in (Len(errors) + 1)..Len(errors') :
             errors'[i].cause # Undefined =>
               errors'[i].resultStack =
                 OrElse(errors[errors'[i].cause.i].resultStack, Str(<<>>))]_vars

C27_Witness ==
  \E i \in 1..Len(errors) :
    /\ errors[i].cause # Undefined
    /\ stackItems[i].inherited = Str(<<indent, "EXECUTOR:sfdx">>)
    /\ stackItems[i].added = <<"ACTION:apex">>
    /\ errors[i].resultStack = Str(<<indent, "ACTION:apex", "\n", indent, "EXECUTOR:sfdx">>)
    /\ errors[errors[i].cause.i].resultStack = Str(<<indent, "EXECUTOR:sfdx">>)

\* C28: once the child process has closed, the status of the Result and the
\* way the promise settled are those of every run with the same exit code
\* and the same stdout, whatever that run has on stderr and as its signal.
C28_StatusFromCodeAndStdOut ==
  LET OtherSignals == {Null, Str(<<"SIGKILL">>), Str(<<"SIGTERM">>)}
  IN
  LET \* What another run could have had on stderr and as its signal.
      OtherStdErr ==
        {<<>>, <<"sfdx: command not found", "\n">>,
         <<"{", "\"status\":1", ",", "\"name\":\"ScratchOrgNotFound\"", "}">>}
  IN
  childProcess.state = "closed" =>
    \A stdErr \in OtherStdErr, signal \in OtherSignals :
      LET other == CloseOutcome(childProcess.code, signal, stdOutBuffer, stdErr,
                                executorResultDetail.sfdxCommandString.s, sfdxCommandDef)
      IN /\ other.status = executorResult.status
         /\ (other.settle = "resolve") = (promise.state = "resolved")

C28_Witness ==
  /\ childProcess.state = "closed"
  /\ childProcess.signal = Str(<<"SIGKILL">>)
  /\ stdErrBuffer # <<>>
  /\ executorResult.status = "FAILURE"
  /\ promise.state = "resolved"

\* C29: whatever the executor's outcome (resolved with SUCCESS, resolved
\* with FAILURE, rejected), executeAction of DeleteScratchOrgAction resolves
\* and the action response holds one success and no failure; after a
\* rejection the success is the Suppressed Scratch Org Deletion Error
\* response.
C29_DeleteNeverRejects ==
  (/\ action.name = "delete-scratch-org"
   /\ actionPromise.state \in Settled
   /\ promise.state \in Settled) =>
    /\ actionPromise.state = "resolved"
    /\ Len(actionResponse.execSuccess) = 1
    /\ actionResponse.execFailure = <<>>
    /\ (promise.state = "rejected") =
         (actionResponse.execSuccess[1].name = "Suppressed Scratch Org Deletion Error")

C29_Witness ==
  /\ action.name = "delete-scratch-org"
  /\ action.state = "SUCCEEDED"
  /\ promise.state = "rejected"
  /\ executorResult # Null
  /\ executorResult.status = "ERROR"
  /\ executorResult.errObj.name = "ShellError"
  /\ actionPromise.state = "resolved"
  /\ actionResponse.execSuccess =
       <<[name |-> "Suppressed Scratch Org Deletion Error", status |-> "ERROR"]>>

C32_ParsedOnlyOnSuccess ==
  /\ executorResultDetail.stdOutParsed # Null =>
       executorResult.status = "SUCCESS" /\ childProcess.code = Num(0)
  /\ childProcess.state # "none" =>
       executorResultDetail.sfdxCommandString = childProcess.command
  /\ childProcess.state = "closed" /\ executorResult.status = "ERROR" =>
       Str(executorResult.errObj.shellError.command) = childProcess.command

C32_Witness ==
  /\ childProcess.state = "closed"
  /\ executorResult.status = "FAILURE"
  /\ JSONparse(Flatten(childProcess.out)).ok
  /\ executorResultDetail.stdOutParsed = Null
  /\ executorResultDetail.sfdxCommandString = childProcess.command

\* C33: a ShellError constructed without a message has as its message the
\* first line of stderr when stderr is not empty, else the first line of
\* stdout when stdout is not empty, else the "Unknown Shell Error" text; the
\* first line of a buffer with no newline is the whole buffer, so the message
\* of a non-empty one-line buffer is never empty.
C33_MessageIsFirstLine ==
  cliOut # Null =>
    LET Line(text) ==
          IF \E i \in 1..Len(text) : text[i] = "\n" THEN FirstLine(text) ELSE text
        expected ==
          IF cliIn.stdErr # <<>> THEN Line(cliIn.stdErr)
          ELSE IF cliIn.stdOut # <<>> THEN Line(cliIn.stdOut)
          ELSE <<"Unknown Shell Error (code=">> \o Template(cliIn.code)
                 \o <<", signal=">> \o Template(cliIn.signal) \o <<")">>
    IN /\ cliOut.message = expected
       /\ cliOut.shellError.message = expected
       /\ cliIn.stdErr = <<"Killed">> => cliOut.message # <<>>

\* C34: in the string handed to the shell, a character of the command name,
\* of a positional argument, of a flag name or of a flag value that lies
\* outside [A-Za-z0-9_/:=-] is inside single quotes or is a single quote
\* after a backslash: the shell finds no operator and no open quote in the
\* string, and reads the command name as one word, then at most one word for
\* the argument, the flag and the flag's value.
C34_NoFieldAddsShellSyntax ==
  cmdOut # Null =>
    LET read == ShellWords(cmdOut.s)
    IN /\ read.ok
       /\ Len(read.words) \in 4..5
       /\ read.words[1] = <<"s", "f", "d", "x">>
       /\ read.words[2] = cmdIn.command

\* C31: with two calls of executeSfdxCommand in flight, under every
\* interleaving of their stdout, stderr and close events, the Result of a
\* call that has closed holds what its own child process wrote and nothing
\* else, and its status and the way its promise settled are those of its
\* own exit code and stdout; an event of one call changes nothing of the
\* other call, and every call leaves the two environment variables "true".
C31_CallsDoNotMix ==
  /\ [](\A c \in 1..2 :
          LET call == calls[c]
              out == Flatten(call.childProcess.out)
              err == Flatten(call.childProcess.err)
          IN /\ call.childProcess.state # "none" =>
                  /\ call.stdOutBuffer = out
                  /\ call.stdErrBuffer = err
                  /\ env = SetEnv(env)
             /\ call.childProcess.state = "closed" =>
                  LET own == CloseOutcome(call.childProcess.code, call.childProcess.signal,
                                          out, err, call.childProcess.command.s,
                                          call.sfdxCommandDef)
                  IN /\ call.executorResultDetail.stdOutBuffer = Str(out)
                     /\ call.executorResultDetail.stdErrBuffer = Str(err)
                     /\ call.executorResult.status = own.status
                     /\ call.executorResult.errObj = own.errObj
                     /\ (call.promise.state = "resolved") = (own.settle = "resolve"))
  /\ [][\A c \in 1..2 : calls'[c] # calls[c] => calls'[3 - c] = calls[3 - c]]_vars

C31_Witness ==
  /\ calls[1].childProcess.state = "closed"
  /\ calls[1].executorResult.status = "FAILURE"
  /\ calls[1].stdErrBuffer # <<>>
  /\ calls[2].childProcess.state = "running"
  /\ calls[2].stdOutBuffer # <<>>
  /\ calls[2].stdErrBuffer # <<>>

\* NOT_STARTED, RUNNING or STOPPED, read from the timer fields of a report.
TimerPhase(r) ==
  IF r.endTime # -1 THEN "STOPPED"
  ELSE IF r.startTime # -1 THEN "RUNNING"
  ELSE "NOT_STARTED"

C36_DebugSetOnce ==
  /\ [](~falconDebug.debugInitialized =>
          /\ ~falconDebug.debugEnabled
          /\ ~falconDebug.debugAsyncEnabled
          /\ ~falconDebug.debugExtendedEnabled)
  /\ [](helperCall.op = "setDebugEnablement" =>
          /\ helperCall.threw <=> helperCall.before.debugInitialized
          /\ helperCall.threw =>
               /\ helperCall.error = "ERROR_DEBUG_OPTIONS_SET"
               /\ falconDebug = helperCall.before
          /\ ~helperCall.threw =>
               falconDebug = helperCall.args @@ [debugInitialized |-> TRUE])
  /\ [][falconDebug.debugInitialized => falconDebug' = falconDebug]_vars

C36_Witness ==
  /\ helperCall.op = "setDebugEnablement"
  /\ helperCall.threw
  /\ helperCall.args.debugEnabled # falconDebug.debugEnabled
  /\ helperCall.args.debugAsyncEnabled # falconDebug.debugAsyncEnabled
  /\ falconDebug.debugExtendedEnabled

\* C37: in _executeInitializationTasks the SFDX initialization tasks are
\* started only after the Git initialization tasks have resolved.  The two
\* groups are never running together; when the Git tasks reject, the SFDX
\* tasks are never started and the promise of the method is rejected with the
\* reason of the Git tasks.
C37_SfdxAfterGit ==
  /\ [](~(initTasks.git = "running" /\ initTasks.sfdx = "running"))
  /\ [](initTasks.sfdx \in {"running", "resolved", "rejected"} =>
          initTasks.git = "resolved")
  /\ [](initTasks.git = "rejected" =>
          /\ initTasks.sfdx = "defined"
          /\ initTasks.promise = "rejected"
          /\ initTasks.reason \in {Str(<<"git init failed">>),
                                   Str(<<"git remote unreachable">>)})
  /\ [][initTasks.git = "rejected" => initTasks' = initTasks]_vars

C37_Witness ==
  /\ initTasks.git = "rejected"
  /\ initTasks.sfdx = "defined"
  /\ initTasks.promise = "rejected"
  /\ initTasks.reason = Str(<<"git remote unreachable">>)

\* C38: whatever the user answers in the interview, when prompting() has
\* ended and confirmationAnswers.proceed is not true the generator status is
\* aborted.  While the status is aborted no question is asked, no template is
\* copied and no answer changes: prompting() and writing() only return.
C38_AbortedGeneratorDoesNothing ==
  /\ [](/\ generator.pc \in {"prompted", "written"}
        /\ generator.confirmationAnswers.proceed # TRUE
        => generator.aborted)
  /\ [][generator.aborted =>
          /\ generator'.aborted
          /\ generator'.asked = generator.asked
          /\ generator'.copied = generator.copied
          /\ generator'.userAnswers = generator.userAnswers
          /\ generator'.finalAnswers = generator.finalAnswers
          /\ generator'.confirmationAnswers = generator.confirmationAnswers]_vars
  /\ [](generator.copied => ~generator.aborted /\ generator.pc = "written")

\* The user chose abort at the final confirmation and writing() has returned.
C38_Witness ==
  /\ generator.pc = "written"
  /\ generator.aborted
  /\ generator.asked >= 5
  /\ "abort" \in DOMAIN generator.confirmationAnswers
  /\ generator.confirmationAnswers.abort = TRUE
  /\ ~generator.copied
  /\ generator.finalAnswers = Null

\* C39: in FalconAdkCreate.run exactly one completion handler is called:
\* onSuccess exactly when the promise of the generator resolved, onError
\* exactly when it rejected, never the two in one run; and run() returns
\* falconJsonResponse only after the handler that was called has completed.
C39_ExactlyOneHandler ==
  /\ Len(createCommand.handlers) <= 1
  /\ createCommand.generatorResult # "pending" =>
       /\ (\E i \in DOMAIN createCommand.handlers :
             createCommand.handlers[i] = "onSuccess")
            <=> createCommand.generatorResult = "resolved"
       /\ (\E i \in DOMAIN createCommand.handlers :
             createCommand.handlers[i] = "onError")
            <=> createCommand.generatorResult = "rejected"
  /\ createCommand.pc = "returned" =>
       createCommand.completed = createCommand.handlers

====
